---- MODULE Spec2Model ----
(***************************************************************************)
(* A model of the embassy-lora SX126x driver: the subroutine layer         *)
(* (sx126x_lora/subroutine.rs), the PhyRxTx / Timings adapter              *)
(* (sx126x/mod.rs) and the fake chip / fake board they talk to.            *)
(*                                                                         *)
(* A driver call is evaluated on a record `s` that carries the fields of   *)
(* LoRa<B, SPI>, the fake chip, the events the fake board observed during  *)
(* the call, and the outcome `err`.  Every operator is the identity on a   *)
(* record whose err is not "Ok": this is Rust's `?`.  The board and the    *)
(* SPI bus may fail at any fallible step: `fault` is the index of the      *)
(* step of the call that fails (0: none).                                  *)
(***************************************************************************)
EXTENDS Integers, Sequences, FiniteSets, TLC

VARIABLES
    operating_mode,     \* LoRa.operating_mode : RadioMode
    packet_type,        \* LoRa.packet_type : PacketType
    image_calibrated,   \* LoRa.image_calibrated : bool
    modulation_params,  \* LoRa.modulation_params : Option<ModulationParams>
    packet_params,      \* LoRa.packet_params : Option<PacketParams>
    packet_status,      \* LoRa.packet_status : Option<PacketStatus>
    rx_boosted_gain,    \* LoRa: boosted LNA gain requested by set_rx_config
    antenna,            \* the board's antenna switch: "Sleep", "Tx", "Rx"
    board,              \* the Board implementation: its constants
    chip,               \* the fake chip (what it was successfully told)
    session,            \* Sx126xRadio: "none" before new(), "open" after
    pc,                 \* the await a tx/rx future is suspended at (0: none)
    trace,              \* events the fake board observed in the last call
    call,               \* the last call: [op, arg]
    result,             \* its outcome: "Ok" or the RadioError kind
    ret,                \* its return value (a sequence of integers)
    buffer,             \* the caller's buffer after the call
    timer               \* LoraTimer and the clock: [now, start, fut]

vars == <<operating_mode, packet_type, image_calibrated, modulation_params,
          packet_params, packet_status, rx_boosted_gain, antenna, board,
          chip, session, pc, trace, call, result, ret, buffer, timer>>

----------------------------------------------------------------------------
(* Bounds of the model *)

\* the fallible board/SPI steps of one subroutine call that may be failed
MaxFault == 12
\* the fallible steps of one PhyRxTx / new call that may be failed
MaxFaultPhy == 44
\* sampled frequencies of the PLL-step check
NumFreqSamples == 120
\* largest symb_num handed to sub_set_lora_symb_num_timeout
MaxSymbInput == 250
\* longest caller buffer
MaxBufLen == 1
MaxFaultRng == 43

\* the clock stops at MaxNow ms; delays of up to MaxMs ms are asked for
MaxNow == 6
MaxMs == 3

\* payloads and caller slices of up to MaxPayload bytes
MaxPayload == 2

\* the longest buffer the MAC hands to tx and rx
MaxLongLen == 256

----------------------------------------------------------------------------
(* Program constants *)

SX126X_XTAL_FREQ == 32000000
SX126X_PLL_STEP_SHIFT_AMOUNT == 14
Pow2(k) == 2 ^ k
Shr(x, k) == x \div Pow2(k)
SX126X_PLL_STEP_SCALED == Shr(SX126X_XTAL_FREQ, 25 - SX126X_PLL_STEP_SHIFT_AMOUNT)
SX126X_MAX_LORA_SYMB_NUM_TIMEOUT == 248

PacketType == {"LoRa", "GFSK"}
StandbyMode == {"RC", "XOSC"}

PacketType_value(t) == IF t = "GFSK" THEN 0 ELSE 1
StandbyMode_value(m) == IF m = "RC" THEN 0 ELSE 1
\* SleepParams: wakeup_rtc (bit 0), reset (bit 1), warm_start (bit 2)
SleepParams_value(p) == (IF p.wakeup_rtc THEN 1 ELSE 0)
                        + (IF p.reset THEN 2 ELSE 0)
                        + (IF p.warm_start THEN 4 ELSE 0)

U8(x) == x % 256
Min(a, b) == IF a < b THEN a ELSE b
Abs(x) == IF x < 0 THEN -x ELSE x

----------------------------------------------------------------------------
(* The fake board and the fake chip *)

Ev(e) == [e |-> e, op |-> "", data |-> <<>>]
Frame(op, data) == [e |-> "Frame", op |-> op, data |-> data]

\* one fallible step of the board or the bus: it fails when it is the
\* fault-th step of the call, else the board observes ev
Step(s, errkind, ev) ==
    IF s.err # "Ok" THEN s
    ELSE IF s.n + 1 = s.fault
         THEN [s EXCEPT !.n = s.n + 1, !.err = errkind]
         ELSE [s EXCEPT !.n = s.n + 1, !.trace = Append(@, ev)]

\* a field assignment of the driver, skipped after an error
Set(s, field, v) == IF s.err # "Ok" THEN s ELSE [s EXCEPT ![field] = v]

\* the mode a command puts the chip in ("" when it changes no mode)
ModeEntered(op, data) ==
    CASE op = "SetSleep" -> "Sleep"
      [] op = "SetStandby" -> IF data[1] = 0 THEN "StandbyRC" ELSE "StandbyXOSC"
      [] op = "SetFS" -> "FrequencySynthesis"
      [] op \in {"SetTx", "SetTxContinuousWave", "SetTxContinuousPremable"}
           -> "Transmit"
      [] op = "SetRx" -> "Receive"
      [] op = "SetRxDutyCycle" -> "ReceiveDutyCycle"
      [] op = "SetCAD" -> "ChannelActivityDetection"
      [] OTHER -> ""

\* the frequency (within 1 Hz) the chip synthesizes for the four bytes of a
\* SetRFFrequency frame: steps * 32 MHz / 2^25; a step of 2^31 or more is
\* far beyond the synthesizer and counts as 2048 MHz
PllStepToHz(data) ==
    LET hi == (data[1] * 1024) + (data[2] * 4) + (data[3] \div 64)
        lo == ((data[3] % 64) * 256) + data[4]
    IN  IF data[1] >= 128 THEN 2048 * 1000000
        ELSE (hi * 15625) + ((lo * 15625) \div 16384)

\* what the fake chip remembers of a command frame that was issued
ChipAccept(s, op, data) ==
    IF s.err # "Ok" THEN s
    ELSE [s EXCEPT
            !.chip.mode = IF ModeEntered(op, data) # ""
                          THEN ModeEntered(op, data) ELSE @,
            \* a cold start (warm_start, bit 2, clear) loses the calibration
            !.chip.cal_band = IF op = "CalibrateImage" THEN data
                              ELSE IF op = "SetSleep" /\ (data[1] \div 4) % 2 = 0
                                   THEN <<>> ELSE @,
            !.chip.rf_freq = IF op = "SetRFFrequency" THEN <<PllStepToHz(data)>>
                             ELSE IF op = "SetSleep" /\ (data[1] \div 4) % 2 = 0
                                  THEN <<>> ELSE @,
            !.chip.packet_type_set = IF op = "SetPacketType" THEN TRUE ELSE @]

\* what the fake chip notes of a frame as it arrives on the bus
ChipSee(s, op) ==
    IF s.err = "Ok" /\ op = "SetRFFrequency" /\ ~s.chip.packet_type_set
    THEN [s EXCEPT !.chip.rf_before_packet_type = TRUE]
    ELSE s

brd_wait_on_busy(s) == Step(s, "Busy", Ev("BusyLow"))

\* write_command: wait-busy; CS-low; send [op, payload...]; CS-high
brd_write_command(s, op, data) ==
    LET s1 == brd_wait_on_busy(s)
        s2 == Step(s1, "DigitalOut", Ev("CsLow"))
        s3 == ChipSee(Step(s2, "SPI", Frame(op, data)), op)
        s4 == Step(s3, "DigitalOut", Ev("CsHigh"))
    IN  ChipAccept(s4, op, data)

\* write_registers: wait-busy; CS-low; send [WriteRegister, addr, bytes]; CS-high
brd_write_registers(s, reg, data) ==
    LET s1 == brd_wait_on_busy(s)
        s2 == Step(s1, "DigitalOut", Ev("CsLow"))
        s3 == Step(s2, "SPI", Frame("WriteRegister:" \o reg, data))
        s4 == Step(s3, "DigitalOut", Ev("CsHigh"))
    IN  s4

\* write_buffer: as write_command with the WriteBuffer opcode and the offset
brd_write_buffer(s, offset, data) ==
    LET s1 == brd_wait_on_busy(s)
        s2 == Step(s1, "DigitalOut", Ev("CsLow"))
        s3 == Step(s2, "SPI", Frame("WriteBuffer", <<offset>> \o data))
        s4 == Step(s3, "DigitalOut", Ev("CsHigh"))
    IN  s4

brd_ant_sleep(s) == Set(Step(s, "DigitalOut", Ev("AntSleep")), "antenna", "Sleep")
brd_ant_set_tx(s) == Set(Step(s, "DigitalOut", Ev("AntTx")), "antenna", "Tx")
brd_ant_set_rx(s) == Set(Step(s, "DigitalOut", Ev("AntRx")), "antenna", "Rx")

brd_set_operating_mode(s, mode) == Set(s, "operating_mode", mode)

\* RESET low for at least 50 ms, then released: the chip forgets everything
brd_reset(s) ==
    LET s1 == Step(s, "DigitalOut", Ev("ResetLow"))
        Forget(s2) ==
            IF s2.err # "Ok" THEN s2
            ELSE [s2 EXCEPT !.chip.cal_band = <<>>, !.chip.rf_freq = <<>>,
                            !.chip.packet_type_set = FALSE]
    IN  Forget(Step(s1, "DigitalOut", Ev("ResetHigh")))

\* wake the chip and wait for BUSY low
brd_wakeup(s) == brd_wait_on_busy(s)

\* read_command: wait-busy; CS-low; send op and a NOP; read the response;
\* CS-high.  The fake chip answers with resp.
brd_read_command(s, op, resp) ==
    LET s1 == brd_wait_on_busy(s)
        s2 == Step(s1, "DigitalOut", Ev("CsLow"))
        s3 == Step(s2, "SPI", Frame(op, <<>>))
        s4 == Step(s3, "DigitalOut", Ev("CsHigh"))
    IN  Set(s4, "resp", resp)

\* read_registers: wait-busy; CS-low; send [ReadRegister, addr, NOP]; read; CS-high
brd_read_registers(s, reg, resp) ==
    LET s1 == brd_wait_on_busy(s)
        s2 == Step(s1, "DigitalOut", Ev("CsLow"))
        s3 == Step(s2, "SPI", Frame("ReadRegister:" \o reg, <<>>))
        s4 == Step(s3, "DigitalOut", Ev("CsHigh"))
    IN  Set(s4, "resp", resp)

\* the byte of the chip's data buffer at address a
ChipBuffer(s, a) ==
    IF a + 1 \in DOMAIN s.env.rx_data THEN s.env.rx_data[a + 1] ELSE 0

\* read_buffer: fills the whole caller slice from the chip's data buffer
brd_read_buffer(s, offset) ==
    LET s1 == brd_wait_on_busy(s)
        s2 == Step(s1, "DigitalOut", Ev("CsLow"))
        s3 == Step(s2, "SPI", Frame("ReadBuffer", <<offset>>))
        s4 == Step(s3, "DigitalOut", Ev("CsHigh"))
    IN  Set(s4, "buf", [i \in 1..Len(s.buf) |-> ChipBuffer(s, offset + i - 1)])

brd_get_radio_type(s) == s.board.radio_type

----------------------------------------------------------------------------
(* Utility functions *)

timeout_1(timeout) == Shr(timeout, 16) % 256
timeout_2(timeout) == Shr(timeout, 8) % 256
timeout_3(timeout) == timeout % 256


\* steps_int << SHIFT, the fraction scaled and rounded, and their sum; for
\* the frequencies of the supported range every intermediate value is below
\* 2^31, so that the u32 arithmetic of the code is plain integer arithmetic
PllStepsInt(freq_in_hz) == freq_in_hz \div SX126X_PLL_STEP_SCALED
PllStepsFrac(freq_in_hz) ==
    freq_in_hz - (PllStepsInt(freq_in_hz) * SX126X_PLL_STEP_SCALED)

convert_freq_in_hz_to_pll_step_NoFrac(freq_in_hz) ==
    PllStepsInt(freq_in_hz) * Pow2(SX126X_PLL_STEP_SHIFT_AMOUNT)

convert_freq_in_hz_to_pll_step(freq_in_hz) ==
    (PllStepsInt(freq_in_hz) * Pow2(SX126X_PLL_STEP_SHIFT_AMOUNT))
    + (((PllStepsFrac(freq_in_hz) * Pow2(SX126X_PLL_STEP_SHIFT_AMOUNT))
        + Shr(SX126X_PLL_STEP_SCALED, 1)) \div SX126X_PLL_STEP_SCALED)

----------------------------------------------------------------------------
(* The subroutine layer (subroutine.rs) *)

sub_set_dio2_as_rf_switch_ctrl(s, enable) ==
    brd_write_command(s, "SetRFSwitchMode", <<IF enable THEN 1 ELSE 0>>)

sub_set_dio3_as_tcxo_ctrl(s, tcxo_voltage, timeout) ==
    brd_write_command(s, "SetTCXOMode",
        <<tcxo_voltage % 8, timeout_1(timeout), timeout_2(timeout),
          timeout_3(timeout)>>)

\* init(): if the board declares a TCXO, set_dio3_as_tcxo_ctrl(voltage, 320)
brd_io_tcxo_init(s) ==
    IF s.board.OSC_MODE = "Tcxo"
    THEN sub_set_dio3_as_tcxo_ctrl(s, s.board.tcxo_voltage, 320)
    ELSE s

\* init(): initialize the RF-switch GPIOs
brd_io_rf_switch_init(s) ==
    IF s.board.DIO2_ANTENNA_CONTROL
    THEN sub_set_dio2_as_rf_switch_ctrl(s, TRUE)
    ELSE s

StandbyOperatingMode_RCOnly(mode) == "StandbyRC"

StandbyOperatingMode(mode) ==
    IF mode = "RC" THEN "StandbyRC" ELSE "StandbyXOSC"

sub_set_standby(s, mode) ==
    LET s1 == brd_write_command(s, "SetStandby", <<StandbyMode_value(mode)>>)
        s2 == brd_set_operating_mode(s1, StandbyOperatingMode(mode))
    IN  brd_ant_sleep(s2)

sub_init_TcxoFirst(s) ==
    LET s1 == brd_reset(s)
        s2 == brd_wakeup(s1)
        s3 == brd_io_tcxo_init(s2)
        s4 == sub_set_standby(s3, "RC")
        s5 == brd_io_rf_switch_init(s4)
    IN  Set(s5, "image_calibrated", FALSE)

sub_init(s) ==
    LET s1 == brd_reset(s)
        s2 == brd_wakeup(s1)
        s3 == sub_set_standby(s2, "RC")
        s4 == brd_io_tcxo_init(s3)
        s5 == brd_io_rf_switch_init(s4)
    IN  Set(s5, "image_calibrated", FALSE)

\* the chip woken from Sleep only
sub_check_device_ready_SleepOnly(s) ==
    IF s.err = "Ok" /\ s.operating_mode = "Sleep"
    THEN brd_wait_on_busy(brd_wakeup(s))
    ELSE brd_wait_on_busy(s)

\* wake the chip up if the driver holds it for asleep, then wait for BUSY low
sub_check_device_ready(s) ==
    IF s.err = "Ok" /\ s.operating_mode \in {"Sleep", "ReceiveDutyCycle"}
    THEN brd_wait_on_busy(brd_wakeup(s))
    ELSE brd_wait_on_busy(s)

\* the payload written on the bus without the board's handshake
sub_set_payload_NoHandshake(s, payload) == Step(s, "SPI", Frame("WriteBuffer", <<0>> \o payload))

\* brd_write_buffer(0x00, payload)
sub_set_payload(s, payload) == brd_write_buffer(s, 0, payload)

sub_set_sleep(s, sleep_config) ==
    LET s1 == brd_ant_sleep(s)
        s2 == IF ~sleep_config.warm_start
              THEN Set(s1, "image_calibrated", FALSE) ELSE s1
        s3 == brd_write_command(s2, "SetSleep", <<SleepParams_value(sleep_config)>>)
    IN  brd_set_operating_mode(s3, "Sleep")

sub_set_fs(s) ==
    LET s1 == brd_write_command(s, "SetFS", <<>>)
    IN  brd_set_operating_mode(s1, "FrequencySynthesis")

TimeoutBuffer(timeout) ==
    <<timeout_1(timeout), timeout_2(timeout), timeout_3(timeout)>>

sub_set_tx(s, timeout) ==
    LET s1 == brd_ant_set_tx(s)
        s2 == brd_set_operating_mode(s1, "Transmit")
    IN  brd_write_command(s2, "SetTx", TimeoutBuffer(timeout))

sub_set_rx(s, timeout) ==
    LET s1 == brd_ant_set_rx(s)
        s2 == brd_set_operating_mode(s1, "Receive")
        s3 == brd_write_registers(s2, "RxGain", <<148>>)
    IN  brd_write_command(s3, "SetRx", TimeoutBuffer(timeout))

\* x & !(1 << k)
ClearBit(x, k) == x - (((x \div Pow2(k)) % 2) * Pow2(k))

convert_u8_buffer_to_u32_LittleEndian(b) ==
    <<(b[4] * 256) + b[3], (b[2] * 256) + b[1]>>

\* (b0 << 24) | (b1 << 16) | (b2 << 8) | b3, the u32 as its two 16-bit
\* halves <<high, low>>
convert_u8_buffer_to_u32(b) == <<(b[1] * 256) + b[2], (b[3] * 256) + b[4]>>

\* the registers answer with env.ana_lna, env.ana_mixer and env.random
sub_get_random(s) ==
    LET lna_original == s.env.ana_lna
        mixer_original == s.env.ana_mixer
        s1 == brd_read_registers(s, "AnaLNA", <<lna_original>>)
        s2 == brd_write_registers(s1, "AnaLNA", <<ClearBit(lna_original, 0)>>)
        s3 == brd_read_registers(s2, "AnaMixer", <<mixer_original>>)
        s4 == brd_write_registers(s3, "AnaMixer", <<ClearBit(mixer_original, 7)>>)
        s5 == sub_set_rx(s4, 16777215)
        s6 == brd_read_registers(s5, "GeneratedRandomNumber", s.env.random)
        s7 == sub_set_standby(s6, "RC")
        s8 == brd_write_registers(s7, "AnaLNA", <<lna_original>>)
        s9 == brd_write_registers(s8, "AnaMixer", <<mixer_original>>)
    IN  Set(s9, "ret", convert_u8_buffer_to_u32(s.env.random))

sub_set_rx_boosted_NoMode(s, timeout) ==
    LET s1 == brd_ant_set_rx(s)
        s3 == brd_write_registers(s1, "RxGain", <<150>>)
    IN  brd_write_command(s3, "SetRx", TimeoutBuffer(timeout))

sub_set_rx_boosted(s, timeout) ==
    LET s1 == brd_ant_set_rx(s)
        s2 == brd_set_operating_mode(s1, "Receive")
        s3 == brd_write_registers(s2, "RxGain", <<150>>)
    IN  brd_write_command(s3, "SetRx", TimeoutBuffer(timeout))

sub_set_rx_duty_cycle(s, rx_time, sleep_time) ==
    LET s1 == brd_write_command(s, "SetRxDutyCycle",
                  TimeoutBuffer(rx_time) \o TimeoutBuffer(sleep_time))
    IN  brd_set_operating_mode(s1, "ReceiveDutyCycle")

sub_set_cad(s) ==
    LET s1 == brd_ant_set_rx(s)
        s2 == brd_write_command(s1, "SetCAD", <<>>)
    IN  brd_set_operating_mode(s2, "ChannelActivityDetection")

sub_set_tx_continuous_wave(s) ==
    LET s1 == brd_ant_set_tx(s)
        s2 == brd_write_command(s1, "SetTxContinuousWave", <<>>)
    IN  brd_set_operating_mode(s2, "Transmit")

sub_set_tx_infinite_preamble(s) ==
    LET s1 == brd_ant_set_tx(s)
        s2 == brd_write_command(s1, "SetTxContinuousPremable", <<>>)
    IN  brd_set_operating_mode(s2, "Transmit")

SymbMantStep_RoundDown(mant) == Shr(mant, 2)

\* mant = (mant + 3) >> 2, in u8
SymbMantStep(mant) == Shr(U8(mant + 3), 2)

RECURSIVE SymbMantExp(_, _)
\* the while loop: <<mant, exp>> on exit
SymbMantExp(mant, exp) ==
    IF mant > 31 THEN SymbMantExp(SymbMantStep(mant), U8(exp + 1))
    ELSE <<mant, exp>>

SymbInitialMant(symb_num) ==
    Shr(U8(U8(Min(symb_num, SX126X_MAX_LORA_SYMB_NUM_TIMEOUT)) + 1), 1)

\* reg = mant << ((2 * exp) + 1), in u8
SymbReg(me) == U8(me[1] * Pow2((2 * me[2]) + 1))

sub_set_lora_symb_num_timeout(s, symb_num) ==
    LET Write(me) ==
            LET SynchTimeout(s1) ==
                    IF symb_num # 0
                    THEN brd_write_registers(s1, "SynchTimeout",
                                             <<U8(me[2] + U8(me[1] * 8))>>)
                    ELSE s1
            IN  SynchTimeout(brd_write_command(s, "SetLoRaSymbTimeout",
                                               <<SymbReg(me)>>))
    IN  Write(SymbMantExp(SymbInitialMant(symb_num), 0))

CalFreq(freq) ==
    IF freq > 900000000 THEN <<225, 233>>
    ELSE IF freq > 850000000 THEN <<215, 219>>
    ELSE IF freq > 770000000 THEN <<193, 197>>
    ELSE IF freq > 460000000 THEN <<117, 129>>
    ELSE IF freq > 425000000 THEN <<107, 111>>
    ELSE <<0, 0>>

sub_calibrate_image(s, freq) ==
    brd_write_command(s, "CalibrateImage", CalFreq(freq))

sub_set_pa_config(s, pa_duty_cycle, hp_max, device_sel, pa_lut) ==
    brd_write_command(s, "SetPAConfig", <<pa_duty_cycle, hp_max, device_sel, pa_lut>>)

U16Bytes(x) == <<Shr(x, 8) % 256, x % 256>>

sub_set_dio_irq_params(s, irq_mask, dio1_mask, dio2_mask, dio3_mask) ==
    brd_write_command(s, "CfgDIOIrq",
        U16Bytes(irq_mask) \o U16Bytes(dio1_mask) \o U16Bytes(dio2_mask)
        \o U16Bytes(dio3_mask))

sub_get_irq_status(s) ==
    LET Status(s1) == Set(s1, "ret", <<(s1.resp[1] * 256) + s1.resp[2]>>)
    IN  Status(brd_read_command(s, "GetIrqStatus", s.irq))

FreqBuffer_LittleEndian(freq_in_pll_steps) ==
    <<freq_in_pll_steps % 256, Shr(freq_in_pll_steps, 8) % 256,
      Shr(freq_in_pll_steps, 16) % 256, Shr(freq_in_pll_steps, 24) % 256>>

\* the four big-endian bytes of the PLL step
FreqBuffer(freq_in_pll_steps) ==
    <<Shr(freq_in_pll_steps, 24) % 256, Shr(freq_in_pll_steps, 16) % 256,
      Shr(freq_in_pll_steps, 8) % 256, freq_in_pll_steps % 256>>

\* the flag raised before the calibration was issued
sub_set_rf_frequency_MarkFirst(s, frequency) ==
    LET s1 == IF ~s.image_calibrated
              THEN sub_calibrate_image(Set(s, "image_calibrated", TRUE), frequency)
              ELSE s
    IN  brd_write_command(s1, "SetRFFrequency",
            FreqBuffer(convert_freq_in_hz_to_pll_step(frequency)))

sub_set_rf_frequency(s, frequency) ==
    LET s1 == IF ~s.image_calibrated
              THEN Set(sub_calibrate_image(s, frequency), "image_calibrated", TRUE)
              ELSE s
    IN  brd_write_command(s1, "SetRFFrequency",
            FreqBuffer(convert_freq_in_hz_to_pll_step(frequency)))

sub_set_packet_type_NoFrame(s, pt) == Set(s, "packet_type", pt)

sub_set_packet_type(s, pt) ==
    LET s1 == Set(s, "packet_type", pt)
    IN  brd_write_command(s1, "SetPacketType", <<PacketType_value(pt)>>)

sub_get_packet_type_AlwaysLoRa(s) == "LoRa"

sub_get_packet_type(s) == s.packet_type

\* i8::clamp
Clamp(x, lo, hi) == IF x < lo THEN lo ELSE IF x > hi THEN hi ELSE x
\* `power as u8`
I8AsU8(x) == IF x < 0 THEN x + 256 ELSE x

\* the SX1261 limits applied to both chips
sub_set_tx_params_OneClamp(s, power, ramp_time) ==
    IF brd_get_radio_type(s) = "SX1261"
    THEN LET s1 == IF power = 15
                   THEN sub_set_pa_config(s, 6, 0, 1, 1)
                   ELSE sub_set_pa_config(s, 4, 0, 1, 1)
         IN  brd_write_command(s1, "SetTxParams",
                 <<I8AsU8(Clamp(power, -17, 14)), ramp_time>>)
    ELSE LET Ored(cfg) == cfg + 30 - ((Shr(cfg, 1) % 16) * 2)
             Clamped(s1) ==
                 brd_write_registers(s1, "TxClampCfg",
                     <<Ored(IF s1.err = "Ok" THEN s1.resp[1] ELSE 0)>>)
             s2 == Clamped(brd_read_registers(s, "TxClampCfg",
                                              <<s.env.tx_clamp_cfg>>))
             s3 == sub_set_pa_config(s2, 4, 7, 0, 1)
         IN  brd_write_command(s3, "SetTxParams",
                 <<I8AsU8(Clamp(power, -17, 14)), ramp_time>>)

sub_set_tx_params(s, power, ramp_time) ==
    IF brd_get_radio_type(s) = "SX1261"
    THEN LET s1 == IF power = 15
                   THEN sub_set_pa_config(s, 6, 0, 1, 1)
                   ELSE sub_set_pa_config(s, 4, 0, 1, 1)
         IN  brd_write_command(s1, "SetTxParams",
                 <<I8AsU8(Clamp(power, -17, 14)), ramp_time>>)
    ELSE LET \* tx_clamp_cfg[0] |= 0x0F << 1
             Ored(cfg) == cfg + 30 - ((Shr(cfg, 1) % 16) * 2)
             Clamped(s1) ==
                 brd_write_registers(s1, "TxClampCfg",
                     <<Ored(IF s1.err = "Ok" THEN s1.resp[1] ELSE 0)>>)
             s2 == Clamped(brd_read_registers(s, "TxClampCfg",
                                              <<s.env.tx_clamp_cfg>>))
             s3 == sub_set_pa_config(s2, 4, 7, 0, 1)
         IN  brd_write_command(s3, "SetTxParams",
                 <<I8AsU8(Clamp(power, -9, 22)), ramp_time>>)

sub_set_modulation_params_TypeFirst(s) ==
    LET Params(s1) ==
            IF s1.err # "Ok" THEN s1
            ELSE IF s.modulation_params.some
            THEN brd_write_command(s1, "SetModulationParams", <<7, 4, 1, 0>>)
            ELSE [s1 EXCEPT !.err = "ModulationParamsMissing"]
    IN  Params(sub_set_packet_type(s, "LoRa"))

sub_set_modulation_params(s) ==
    IF s.err # "Ok" THEN s
    ELSE IF s.modulation_params.some
    THEN LET s1 == sub_set_packet_type(s, "LoRa")
             mp == s.modulation_params
         IN  brd_write_command(s1, "SetModulationParams",
                 <<mp.spreading_factor, mp.bandwidth, mp.coding_rate,
                   mp.low_data_rate_optimize>>)
    ELSE [s EXCEPT !.err = "ModulationParamsMissing"]

BoolU8(b) == IF b THEN 1 ELSE 0

sub_set_packet_params(s) ==
    IF s.err # "Ok" THEN s
    ELSE IF s.packet_params.some
    THEN LET s1 == sub_set_packet_type(s, "LoRa")
             pp == s.packet_params
         IN  brd_write_command(s1, "SetPacketParams",
                 U16Bytes(pp.preamble_length)
                 \o <<BoolU8(pp.implicit_header), pp.payload_length,
                      BoolU8(pp.crc_on), BoolU8(pp.iq_inverted)>>)
    ELSE [s EXCEPT !.err = "PacketParamsMissing"]

sub_set_cad_params(s, symbols, det_peak, det_min, exit_mode, timeout) ==
    LET s1 == brd_write_command(s, "SetCADParams",
                  <<symbols, det_peak, det_min, exit_mode>> \o TimeoutBuffer(timeout))
    IN  brd_set_operating_mode(s1, "ChannelActivityDetection")

sub_set_buffer_base_address(s, tx_base_address, rx_base_address) ==
    brd_write_command(s, "SetBufferBaseAddress", <<tx_base_address, rx_base_address>>)

\* returns <<payload_length, offset>> in ret
sub_get_rx_buffer_status(s) ==
    IF s.err # "Ok" THEN s
    ELSE IF s.packet_params.some
    THEN LET implicit == (sub_get_packet_type(s) = "LoRa")
                         /\ s.packet_params.implicit_header
             Length(s1) ==
                 IF implicit
                 THEN brd_read_registers(s1, "PayloadLength",
                                         <<s.env.payload_length_reg>>)
                 ELSE s1
             Status(s2) ==
                 IF s2.err # "Ok" THEN s2
                 ELSE [s2 EXCEPT !.ret =
                         <<IF implicit THEN s2.resp[1] ELSE s.env.rx_status[1],
                           s.env.rx_status[2]>>]
         IN  Status(Length(brd_read_command(s, "GetRxBufferStatus",
                                            s.env.rx_status)))
    ELSE [s EXCEPT !.err = "PacketParamsMissing"]

\* a payload as long as the caller's slice refused
sub_get_payload_NoRoom(s) ==
    LET Read(s1, size, offset) ==
            IF size >= Len(s1.buf)
            THEN [s1 EXCEPT !.err = "PayloadSizeMismatch",
                            !.ret = <<size, Len(s1.buf)>>]
            ELSE Set(brd_read_buffer(s1, offset), "ret", <<size>>)
        Payload(s1) ==
            IF s1.err # "Ok" THEN s1 ELSE Read(s1, s1.ret[1], s1.ret[2])
    IN  Payload(sub_get_rx_buffer_status(s))

\* returns the size in ret; the caller's slice is s.buf
sub_get_payload(s) ==
    LET Read(s1, size, offset) ==
            IF size > Len(s1.buf)
            THEN [s1 EXCEPT !.err = "PayloadSizeMismatch",
                            !.ret = <<size, Len(s1.buf)>>]
            ELSE Set(brd_read_buffer(s1, offset), "ret", <<size>>)
        Payload(s1) ==
            IF s1.err # "Ok" THEN s1 ELSE Read(s1, s1.ret[1], s1.ret[2])
    IN  Payload(sub_get_rx_buffer_status(s))

sub_send_payload_TxFirst(s, payload, timeout) ==
    sub_set_payload(sub_set_tx(s, timeout), payload)

sub_send_payload(s, payload, timeout) ==
    LET s1 == sub_set_payload(s, payload)
    IN  sub_set_tx(s1, timeout)

\* (x as i8), and a value wrapped into i8
U8AsI8(x) == IF x >= 128 THEN x - 256 ELSE x
WrapI8(x) == U8AsI8(x % 256)
\* arithmetic shift right of a signed value
Sar(x, k) == IF x >= 0 THEN x \div Pow2(k) ELSE -((-x + Pow2(k) - 1) \div Pow2(k))

\* ((-(raw as i32)) >> 1) as i8
RssiOf(raw) == WrapI8(Sar(-raw, 1))
\* (raw as i8) + 2 leaves i8 for raw 126 and 127
SnrOverflows(raw) == U8AsI8(raw) + 2 > 127
\* ((raw as i8) + 2) >> 2, the sum wrapped when overflow is not checked
SnrOf(raw) == Sar(WrapI8(U8AsI8(raw) + 2), 2)

sub_get_packet_status(s) ==
    LET Status(s1) ==
            IF s1.err # "Ok" THEN s1
            ELSE IF s1.env.overflow_checks /\ SnrOverflows(s1.resp[2])
            THEN [s1 EXCEPT !.err = "Overflow"]
            ELSE [s1 EXCEPT !.ret = <<RssiOf(s1.resp[1]), SnrOf(s1.resp[2]),
                                      RssiOf(s1.resp[3])>>]
    IN  Status(brd_read_command(s, "GetPacketStatus", s.env.pkt_status))

sub_clear_irq_status(s, irq) ==
    brd_write_command(s, "ClrIrqStatus", U16Bytes(irq))

----------------------------------------------------------------------------
(* Calls: a call starts from the driver's fields and commits them back *)

NoParams == [some |-> FALSE]

\* what the fake chip answers when nothing is expected of it; overflow_checks
\* is the build's choice to panic on integer overflow (debug) or wrap (release)
QuietEnv == [irqs |-> <<>>, rx_status |-> <<0, 0>>, payload_length_reg |-> 0,
             pkt_status |-> <<0, 0, 0>>, rx_data |-> <<>>, tx_clamp_cfg |-> 0,
             overflow_checks |-> FALSE,
             ana_lna |-> 0, ana_mixer |-> 0, random |-> <<0, 0, 0, 0>>]

Start(fault, env, buf) ==
    [operating_mode |-> operating_mode, packet_type |-> packet_type,
     image_calibrated |-> image_calibrated,
     modulation_params |-> modulation_params, packet_params |-> packet_params,
     packet_status |-> packet_status, rx_boosted_gain |-> rx_boosted_gain,
     antenna |-> antenna, board |-> board, chip |-> chip,
     trace |-> <<>>, err |-> "Ok", n |-> 0, fault |-> fault,
     env |-> env, irqs |-> env.irqs, irq |-> <<0, 0>>,
     buf |-> buf, resp |-> <<>>, ret |-> <<>>]

\* a fault index is tried only when the call has that many fallible steps
Commit(op, arg, after) ==
    \E s \in {after} :
        /\ s.fault = 0 \/ s.err # "Ok"
        /\ operating_mode' = s.operating_mode
        /\ packet_type' = s.packet_type
        /\ image_calibrated' = s.image_calibrated
        /\ modulation_params' = s.modulation_params
        /\ packet_params' = s.packet_params
        /\ packet_status' = s.packet_status
        /\ rx_boosted_gain' = s.rx_boosted_gain
        /\ antenna' = s.antenna
        /\ chip' = s.chip
        /\ trace' = s.trace
        /\ call' = [op |-> op, arg |-> arg]
        /\ result' = s.err
        /\ ret' = s.ret
        /\ buffer' = s.buf
        /\ UNCHANGED <<timer, board, session, pc>>

Boards ==
    { [OSC_MODE |-> "Tcxo", DIO2_ANTENNA_CONTROL |-> TRUE,
       radio_type |-> "SX1262", tcxo_voltage |-> 1],
      [OSC_MODE |-> "Xosc", DIO2_ANTENNA_CONTROL |-> FALSE,
       radio_type |-> "SX1261", tcxo_voltage |-> 0] }

\* the frequencies the calls are tried with: one per calibration band in use
Frequencies == {433000000, 868100000, 915000000}
Timeouts == {90000}

\* LoraTimer (lib.rs): the clock counts milliseconds; `fut` is the future the
\* timer last handed out (it borrows the timer until it is dropped)
NoFuture == [kind |-> "none", called |-> 0, t0 |-> 0, ms |-> 0, expires_at |-> 0, done |-> -1]

\* LoraTimer::new(): start = Instant::now(), at power-up
InitTimer == [now |-> 0, start |-> 0, fut |-> NoFuture]

\* LoraTimer::new() at a later instant
LoraTimer_new(t) == [t EXCEPT !.start = t.now, !.fut = NoFuture]

\* reset(): self.start = Instant::now()
LoraTimer_reset(t) == [t EXCEPT !.start = t.now]

\* the instant a future created from the clock reading expires at
LoraTimer_at_FromNow(t, ms) == t.now + ms

\* at(millis): Timer::at(self.start + Duration::from_millis(millis))
LoraTimer_at(t, ms) == t.start + ms

\* delay_ms(millis): Timer::after(Duration::from_millis(millis)), that is
\* Timer { expires_at: Instant::now() + duration }
LoraTimer_delay_ms(t, ms) == t.now + ms

\* the future a call returns, with the instants it was created from
TimerFuture(kind, t, ms, expires) == [kind |-> kind, called |-> t.now, t0 |-> t.start, ms |-> ms, expires_at |-> expires, done |-> -1]

TimerPending(t) == t.fut.kind # "none" /\ t.fut.done = -1

\* LoRa::new(spi, board): the chip is asleep after power-up
InitLoRa ==
    /\ operating_mode = "Sleep"
    /\ packet_type = "LoRa"
    /\ image_calibrated = FALSE
    /\ modulation_params = NoParams
    /\ packet_params = NoParams
    /\ packet_status = NoParams
    /\ rx_boosted_gain = FALSE
    /\ antenna = "Sleep"
    /\ chip = [mode |-> "", cal_band |-> <<>>, rf_freq |-> <<>>,
               packet_type_set |-> FALSE, rf_before_packet_type |-> FALSE]
    /\ trace = <<>>
    /\ pc = 0
    /\ call = [op |-> "new", arg |-> <<>>]
    /\ result = "Ok"
    /\ ret = <<>>
    /\ buffer = <<>>
    /\ timer = InitTimer

Init ==
    /\ InitLoRa
    /\ board \in Boards
    /\ session = "lora"

Faults == 0..MaxFault

Call_sub_init ==
    \E f \in Faults :
        Commit("sub_init", <<>>, sub_init(Start(f, QuietEnv, <<>>)))

Call_sub_set_sleep ==
    \E f \in Faults, warm \in BOOLEAN :
        Commit("sub_set_sleep", <<BoolU8(warm)>>,
               sub_set_sleep(Start(f, QuietEnv, <<>>),
                   [wakeup_rtc |-> FALSE, reset |-> FALSE, warm_start |-> warm]))

Call_sub_set_standby ==
    \E f \in Faults, mode \in StandbyMode :
        Commit("sub_set_standby", <<StandbyMode_value(mode)>>,
               sub_set_standby(Start(f, QuietEnv, <<>>), mode))

Call_sub_set_fs ==
    \E f \in Faults :
        Commit("sub_set_fs", <<>>, sub_set_fs(Start(f, QuietEnv, <<>>)))

Call_sub_set_tx ==
    \E f \in Faults, t \in Timeouts :
        Commit("sub_set_tx", <<t>>, sub_set_tx(Start(f, QuietEnv, <<>>), t))

Call_sub_set_rx ==
    \E f \in Faults, t \in Timeouts :
        Commit("sub_set_rx", <<t>>, sub_set_rx(Start(f, QuietEnv, <<>>), t))

Call_sub_set_rx_boosted ==
    \E f \in Faults, t \in Timeouts :
        Commit("sub_set_rx_boosted", <<t>>,
               sub_set_rx_boosted(Start(f, QuietEnv, <<>>), t))

Call_sub_set_rx_duty_cycle ==
    \E f \in Faults, t \in Timeouts :
        Commit("sub_set_rx_duty_cycle", <<t, t>>,
               sub_set_rx_duty_cycle(Start(f, QuietEnv, <<>>), t, t))

Call_sub_set_cad ==
    \E f \in Faults :
        Commit("sub_set_cad", <<>>, sub_set_cad(Start(f, QuietEnv, <<>>)))

Call_sub_set_tx_continuous_wave ==
    \E f \in Faults :
        Commit("sub_set_tx_continuous_wave", <<>>,
               sub_set_tx_continuous_wave(Start(f, QuietEnv, <<>>)))

Call_sub_set_tx_infinite_preamble ==
    \E f \in Faults :
        Commit("sub_set_tx_infinite_preamble", <<>>,
               sub_set_tx_infinite_preamble(Start(f, QuietEnv, <<>>)))

Call_sub_set_cad_params ==
    \E f \in Faults :
        Commit("sub_set_cad_params", <<>>,
               sub_set_cad_params(Start(f, QuietEnv, <<>>), 1, 22, 10, 0, 0))

Call_sub_check_device_ready ==
    \E f \in Faults :
        Commit("sub_check_device_ready", <<>>,
               sub_check_device_ready(Start(f, QuietEnv, <<>>)))

Next ==
    \/ Call_sub_init
    \/ Call_sub_check_device_ready
    \/ Call_sub_set_sleep
    \/ Call_sub_set_standby
    \/ Call_sub_set_fs
    \/ Call_sub_set_tx
    \/ Call_sub_set_rx
    \/ Call_sub_set_rx_boosted
    \/ Call_sub_set_rx_duty_cycle
    \/ Call_sub_set_cad
    \/ Call_sub_set_tx_continuous_wave
    \/ Call_sub_set_tx_infinite_preamble
    \/ Call_sub_set_cad_params

\* the operating-mode subroutines, called in any order, failing anywhere
Spec == Init /\ [][Next]_vars

----------------------------------------------------------------------------
(* Image calibration: init, sleep and the RF frequency *)

Call_sub_set_rf_frequency ==
    \E f \in Faults, freq \in Frequencies :
        Commit("sub_set_rf_frequency", <<freq>>,
               sub_set_rf_frequency(Start(f, QuietEnv, <<>>), freq))

NextCal ==
    \/ Call_sub_init
    \/ Call_sub_set_sleep
    \/ Call_sub_set_rf_frequency

SpecCal == Init /\ [][NextCal]_vars


----------------------------------------------------------------------------
(* Registers and parameters: random numbers, packet type, stored parameters *)

FaultsRng == 0..MaxFaultRng

\* register contents the chip is tried with, <<AnaLNA, AnaMixer>> and the
\* four bytes of GeneratedRandomNumber: the bits to clear set and unset
RngRegisters == {<<255, 255, 222, 173, 190, 239>>, <<0, 0, 1, 2, 3, 4>>,
                 <<1, 128, 128, 0, 0, 255>>}

Call_sub_get_random ==
    \E f \in FaultsRng, regs \in RngRegisters :
        Commit("sub_get_random", regs,
               sub_get_random(Start(f, [QuietEnv EXCEPT
                                           !.ana_lna = regs[1],
                                           !.ana_mixer = regs[2],
                                           !.random = SubSeq(regs, 3, 6)],
                                    <<>>)))

\* every combination of the two board constants
AllBoards ==
    { [OSC_MODE |-> osc, DIO2_ANTENNA_CONTROL |-> dio2,
       radio_type |-> "SX1262", tcxo_voltage |-> 1] :
         osc \in {"Tcxo", "Xosc"}, dio2 \in BOOLEAN }

InitSub ==
    /\ InitLoRa
    /\ board \in AllBoards
    /\ session = "lora"

NextSub ==
    \/ Call_sub_init
    \/ Call_sub_get_random

SpecSub == InitSub /\ [][NextSub]_vars

\* init on every board, and the frequency that marks the image calibrated
NextInit ==
    \/ Call_sub_init
    \/ Call_sub_set_rf_frequency

SpecInit == InitSub /\ [][NextInit]_vars

----------------------------------------------------------------------------
(* The LoRa facade the PhyRxTx adapter calls *)

IrqTxDone == 1
IrqRxDone == 2
IrqHeaderError == 32
IrqCRCError == 64
IrqCADDone == 128
IrqRxTxTimeout == 512

Bit(x, mask) == (x \div mask) % 2 = 1

Ramp200Us == 4

init(s) == sub_init(s)

\* set_packet_type(LoRa); the LoRa sync word: 0x3444 public, 0x1424 private
set_lora_modem(s, enable_public_network) ==
    LET s1 == sub_set_packet_type(s, "LoRa")
    IN  brd_write_registers(s1, "LoRaSyncword",
            IF enable_public_network THEN <<52, 68>> ELSE <<20, 36>>)

\* low_data_rate_optimize = 1 iff the symbol lasts 16 ms or more
LowDataRateOptimize(sf, bw_khz) == IF Pow2(sf) >= 16 * bw_khz THEN 1 ELSE 0

\* Bandwidth::value() of the bandwidths of LoRaWAN
Bandwidth_value(bw_khz) ==
    CASE bw_khz = 125 -> 4 [] bw_khz = 250 -> 5 [] bw_khz = 500 -> 6

StoreParams(s, sf, bw_khz, cr, preamble, fixed_len, payload_len, crc_on, iq) ==
    LET s1 == Set(s, "modulation_params",
                  [some |-> TRUE, spreading_factor |-> sf,
                   bandwidth |-> Bandwidth_value(bw_khz), coding_rate |-> cr,
                   low_data_rate_optimize |-> LowDataRateOptimize(sf, bw_khz)])
    IN  Set(s1, "packet_params",
            [some |-> TRUE, preamble_length |-> preamble,
             implicit_header |-> fixed_len, payload_length |-> payload_len,
             crc_on |-> crc_on, iq_inverted |-> iq])

set_tx_config(s, power, sf, bw_khz, cr, preamble, fixed_len, crc_on, iq) ==
    LET s1 == StoreParams(s, sf, bw_khz, cr, preamble, fixed_len, 0, crc_on, iq)
        s2 == sub_set_modulation_params(s1)
        s3 == sub_set_packet_params(s2)
        s4 == sub_set_tx_params(s3, power, Ramp200Us)
        s5 == sub_set_dio_irq_params(s4, IrqTxDone + IrqRxTxTimeout,
                                     IrqTxDone + IrqRxTxTimeout, 0, 0)
    IN  sub_set_buffer_base_address(s5, 0, 0)

RxIrqMask == IrqRxDone + IrqRxTxTimeout + IrqCRCError + IrqHeaderError

set_rx_config(s, sf, bw, cr, pre, symb_timeout, fixed, len, crc, iq, boosted) ==
    LET s1 == StoreParams(s, sf, bw, cr, pre, fixed, len, crc, iq)
        s2 == Set(s1, "rx_boosted_gain", boosted)
        s3 == sub_set_modulation_params(s2)
        s4 == sub_set_packet_params(s3)
        s5 == sub_set_dio_irq_params(s4, RxIrqMask, RxIrqMask, 0, 0)
        s6 == sub_set_buffer_base_address(s5, 0, 0)
    IN  sub_set_lora_symb_num_timeout(s6, symb_timeout)

set_max_payload_length(s, max_payload_length) ==
    IF s.err # "Ok" THEN s
    ELSE IF s.packet_params.some
    THEN sub_set_packet_params(
             [s EXCEPT !.packet_params.payload_length = max_payload_length])
    ELSE [s EXCEPT !.err = "PacketParamsMissing"]

set_channel(s, frequency) == sub_set_rf_frequency(s, frequency)

\* send(buf, timeout): write_buffer(0, buf); set_tx(timeout)
send(s, buf, timeout) == sub_send_payload(s, buf, timeout)

\* rx(timeout): set_rx(timeout), with the boosted gain if it was asked for
rx(s, timeout) ==
    IF s.err # "Ok" THEN s
    ELSE IF s.rx_boosted_gain THEN sub_set_rx_boosted(s, timeout)
    ELSE sub_set_rx(s, timeout)

get_latest_packet_status(s) == s.packet_status

\* the RxDone branch of process_irq
ReceiveDone(s, flags, has_buffer) ==
    IF Bit(flags, IrqHeaderError) THEN [s EXCEPT !.err = "HeaderInvalid"]
    ELSE IF Bit(flags, IrqCRCError) THEN [s EXCEPT !.err = "ReceiveCrc"]
    ELSE LET Store(s2, len) ==
                 IF s2.err # "Ok" THEN s2
                 ELSE [s2 EXCEPT !.packet_status =
                                     [some |-> TRUE, rssi |-> s2.ret[1],
                                      snr |-> s2.ret[2], signal_rssi |-> s2.ret[3]],
                                 !.ret = <<len>>]
             Status(s1) ==
                 Store(sub_get_packet_status(s1),
                       IF s1.err = "Ok" /\ has_buffer THEN s1.ret[1] ELSE 0)
         IN  Status(IF has_buffer THEN sub_get_payload(s) ELSE s)

RECURSIVE process_irq(_, _)
\* loop: await DIO1 rising; read the IRQ status; clear it; decode.  When the
\* chip raises nothing more the await never completes ("Pending").
process_irq(s, has_buffer) ==
    IF s.err # "Ok" THEN s
    ELSE LET Decode(s4, flags) ==
                 IF s4.err # "Ok" THEN s4
                 ELSE IF Bit(flags, IrqTxDone) THEN s4
                 ELSE IF Bit(flags, IrqRxDone)
                      THEN ReceiveDone(s4, flags, has_buffer)
                 ELSE IF Bit(flags, IrqRxTxTimeout)
                      THEN [s4 EXCEPT !.err =
                               IF s4.operating_mode = "Receive"
                               THEN "ReceiveTimeout" ELSE "TransmitTimeout"]
                 ELSE IF Bit(flags, IrqCADDone) THEN s4
                 ELSE process_irq(s4, has_buffer)
             Clear(s3, flags) == Decode(sub_clear_irq_status(s3, flags), flags)
             Status(s3) == Clear(s3, IF s3.err = "Ok" THEN s3.ret[1] ELSE 0)
             Raised(s1) ==
                 Status(sub_get_irq_status(
                     Set(Set(s1, "irq", Head(s.irqs)), "irqs", Tail(s.irqs))))
             Wait(s0) ==
                 IF s.irqs = <<>> THEN [s0 EXCEPT !.err = "Pending"]
                 ELSE Raised(Step(s0, "Dio1", Ev("Dio1High")))
         IN  Wait([s EXCEPT !.trace = Append(@, Ev("Dio1Wait"))])

----------------------------------------------------------------------------
(* The timer the MAC is given (lib.rs) *)

RadioUnchanged == UNCHANGED <<operating_mode, packet_type, image_calibrated, modulation_params, packet_params, packet_status, rx_boosted_gain, antenna, board, chip, session, pc, trace, call, result, ret, buffer>>

TimerDelays == 0..MaxMs

\* a millisecond passes; a future that has expired is woken first
Timer_tick ==
    /\ timer.now < MaxNow
    /\ ~(TimerPending(timer) /\ timer.now >= timer.fut.expires_at)
    /\ timer' = [timer EXCEPT !.now = timer.now + 1]
    /\ RadioUnchanged

Timer_new ==
    /\ timer' = LoraTimer_new(timer)
    /\ RadioUnchanged

Timer_reset ==
    /\ ~TimerPending(timer)
    /\ timer' = LoraTimer_reset(timer)
    /\ RadioUnchanged

Timer_at ==
    /\ ~TimerPending(timer)
    /\ \E ms \in TimerDelays :
        timer' = [timer EXCEPT !.fut = TimerFuture("at", timer, ms, LoraTimer_at(timer, ms))]
    /\ RadioUnchanged

Timer_delay_ms ==
    /\ ~TimerPending(timer)
    /\ \E ms \in TimerDelays :
        timer' = [timer EXCEPT !.fut = TimerFuture("delay_ms", timer, ms, LoraTimer_delay_ms(timer, ms))]
    /\ RadioUnchanged

\* Timer::poll: ready once Instant::now() >= expires_at
Timer_poll ==
    /\ TimerPending(timer)
    /\ timer.now >= timer.fut.expires_at
    /\ timer' = [timer EXCEPT !.fut.done = timer.now]
    /\ RadioUnchanged

\* the caller drops the future before it completes
Timer_drop ==
    /\ TimerPending(timer)
    /\ timer' = [timer EXCEPT !.fut = NoFuture]
    /\ RadioUnchanged

NextTimer ==
    \/ Timer_tick
    \/ Timer_new
    \/ Timer_reset
    \/ Timer_at
    \/ Timer_delay_ms
    \/ Timer_poll
    \/ Timer_drop

SpecTimer == Init /\ [][NextTimer]_vars

----------------------------------------------------------------------------
(* The packet type and the stored parameters *)

Call_sub_set_packet_type ==
    \E f \in Faults, pt \in PacketType :
        Commit("sub_set_packet_type", <<pt>>,
               sub_set_packet_type(Start(f, QuietEnv, <<>>), pt))

Call_sub_get_packet_type ==
    /\ call' = [op |-> "sub_get_packet_type", arg |-> <<>>]
    /\ ret' = <<sub_get_packet_type(Start(0, QuietEnv, <<>>))>>
    /\ result' = "Ok"
    /\ trace' = <<>>
    /\ UNCHANGED <<timer, operating_mode, packet_type, image_calibrated,
                   modulation_params, packet_params, packet_status,
                   rx_boosted_gain, antenna, board, chip, session, pc, buffer>>

\* the facade stores modulation_params or packet_params (SF7, 125 kHz, 4/5)
Store_params ==
    \E field \in {"modulation_params", "packet_params"}, fixed_len \in BOOLEAN :
        LET s == StoreParams(Start(0, QuietEnv, <<>>), 7, 125, 1, 8, fixed_len,
                             0, TRUE, FALSE)
        IN  /\ modulation_params' = IF field = "modulation_params"
                                    THEN s.modulation_params
                                    ELSE modulation_params
            /\ packet_params' = IF field = "packet_params"
                                THEN s.packet_params ELSE packet_params
            /\ call' = [op |-> "store", arg |-> <<field>>]
            /\ result' = "Ok"
            /\ ret' = <<>>
            /\ trace' = <<>>
            /\ UNCHANGED <<timer, operating_mode, packet_type, image_calibrated,
                           packet_status, rx_boosted_gain, antenna, board, chip,
                           session, pc, buffer>>

Call_sub_set_modulation_params ==
    \E f \in Faults :
        Commit("sub_set_modulation_params", <<>>,
               sub_set_modulation_params(Start(f, QuietEnv, <<>>)))

Call_sub_set_packet_params ==
    \E f \in Faults :
        Commit("sub_set_packet_params", <<>>,
               sub_set_packet_params(Start(f, QuietEnv, <<>>)))

Call_sub_get_rx_buffer_status ==
    \E f \in Faults :
        Commit("sub_get_rx_buffer_status", <<>>,
               sub_get_rx_buffer_status(
                   Start(f, [QuietEnv EXCEPT !.rx_status = <<3, 16>>,
                                             !.payload_length_reg = 5], <<>>)))

NextParams ==
    \/ Call_sub_set_packet_type
    \/ Call_sub_get_packet_type
    \/ Store_params
    \/ Call_sub_set_modulation_params
    \/ Call_sub_set_packet_params
    \/ Call_sub_get_rx_buffer_status

SpecParams == Init /\ [][NextParams]_vars

----------------------------------------------------------------------------
(* The PhyRxTx and Timings adapter (sx126x/mod.rs) *)

\* Sx126xRadio::new: LoRa::new, init, set_lora_modem
Sx126xRadio_new(s, enable_public_network) ==
    set_lora_modem(init(s), enable_public_network)

get_rx_window_duration_ms == 1000

TxTimeout == 16777215

\* PhyRxTx::tx up to its k-th await; config = [pw, sf, bw, cr, frequency]
PhyRxTx_tx(s, k, config, buf) ==
    CASE k = 1 -> set_tx_config(s, config.pw, config.sf, config.bw, config.cr,
                                8, FALSE, TRUE, FALSE)
      [] k = 2 -> set_max_payload_length(s, U8(Len(buf)))
      [] k = 3 -> set_channel(s, config.frequency)
      [] k = 4 -> send(s, buf, TxTimeout)
      [] k = 5 -> Set(process_irq(s, FALSE), "ret", <<0>>)

RxTimeout == 90 * 1000

\* the (len, RxQuality) PhyRxTx::rx returns after process_irq
RxReturn(s) ==
    IF s.err # "Ok" THEN s
    ELSE LET st == get_latest_packet_status(s)
         IN  [s EXCEPT !.ret = <<s.ret[1],
                                 IF st.some THEN st.rssi ELSE 0,
                                 IF st.some THEN st.snr ELSE 0>>]

PhyRxTx_rx_RxAfterChannelError(s, k, config) ==
    LET Then(s1) ==
            IF s1.err = "Ok" THEN s1
            ELSE [rx([s1 EXCEPT !.err = "Ok"], RxTimeout) EXCEPT !.err = s1.err]
    IN  CASE k = 1 -> set_rx_config(s, config.sf, config.bw, config.cr, 8, 4,
                                    FALSE, 0, TRUE, TRUE, TRUE)
          [] k = 2 -> set_max_payload_length(s, U8(Len(s.buf)))
          [] k = 3 -> Then(set_channel(s, config.frequency))
          [] k = 4 -> rx(s, RxTimeout)
          [] k = 5 -> RxReturn(process_irq(s, TRUE))

\* PhyRxTx::rx up to its k-th await; the caller's receiving_buffer is s.buf
PhyRxTx_rx(s, k, config) ==
    CASE k = 1 -> set_rx_config(s, config.sf, config.bw, config.cr, 8, 4, FALSE,
                                0, TRUE, TRUE, TRUE)
      [] k = 2 -> set_max_payload_length(s, U8(Len(s.buf)))
      [] k = 3 -> set_channel(s, config.frequency)
      [] k = 4 -> rx(s, RxTimeout)
      [] k = 5 -> RxReturn(process_irq(s, TRUE))

LastAwait == 5

FaultsPhy == 0..MaxFaultPhy

\* the RF configurations the MAC hands over: SF7, 125 kHz, CR 4/5
RfConfigs == {[pw |-> 13, sf |-> 7, bw |-> 125, cr |-> 1, frequency |-> f] :
                 f \in {868100000, 433000000}}
ConfigArg(c) == <<c.pw, c.sf, c.bw, c.cr, c.frequency>>
ArgConfig(a) == [pw |-> a[1], sf |-> a[2], bw |-> a[3], cr |-> a[4],
                 frequency |-> a[5]]

\* caller buffers up to MaxBufLen bytes
CallerBytes == <<17, 34, 51, 68, 85>>
Buffers == {SubSeq(CallerBytes, 1, n) : n \in 0..MaxBufLen}

\* what the chip raises on DIO1 during a transmission
TxIrqs == {<<>>, <<<<0, IrqTxDone>>>>, <<<<2, 0>>>>, <<<<0, 4>>, <<0, IrqTxDone>>>>}

\* what the chip raises on DIO1 during a reception, and what it received
RxIrqs == {<<>>, <<<<0, IrqRxDone>>>>, <<<<2, 0>>>>,
           <<<<0, IrqRxDone + IrqCRCError>>>>}
RxPktStatus == <<110, 9, 100>>
RxEnvs == {[QuietEnv EXCEPT !.irqs = irqs, !.rx_status = <<n, 0>>,
                            !.pkt_status = RxPktStatus,
                            !.rx_data = <<161, 162, 163>>] :
              irqs \in RxIrqs, n \in {1, MaxBufLen + 1}}

InitPhy ==
    /\ InitLoRa
    /\ board \in Boards
    /\ session = "none"

\* a future commits what it did up to its next await; an error ends it
CommitAwait(after) ==
    \E s \in {after} :
        /\ s.fault = 0 \/ s.err # "Ok"
        /\ operating_mode' = s.operating_mode
        /\ packet_type' = s.packet_type
        /\ image_calibrated' = s.image_calibrated
        /\ modulation_params' = s.modulation_params
        /\ packet_params' = s.packet_params
        /\ packet_status' = s.packet_status
        /\ rx_boosted_gain' = s.rx_boosted_gain
        /\ antenna' = s.antenna
        /\ chip' = s.chip
        /\ trace' = s.trace
        /\ buffer' = s.buf
        /\ ret' = s.ret
        /\ pc' = IF s.err = "Ok" /\ pc < LastAwait THEN pc + 1 ELSE 0
        /\ result' = IF s.err # "Ok" THEN s.err
                     ELSE IF pc < LastAwait THEN "Running" ELSE "Ok"
        /\ UNCHANGED <<timer, board, session, call>>

\* the record a suspended future resumes from
Resume(fault, env) == [Start(fault, env, buffer) EXCEPT !.trace = trace]

\* before a radio exists only new() can be called; it starts from LoRa::new
Call_new ==
    /\ session = "none"
    /\ \E f \in FaultsPhy, public \in BOOLEAN :
        LET fresh == [Start(f, QuietEnv, <<>>) EXCEPT
                         !.operating_mode = "Sleep", !.packet_type = "LoRa",
                         !.image_calibrated = FALSE,
                         !.modulation_params = NoParams,
                         !.packet_params = NoParams,
                         !.packet_status = NoParams,
                         !.rx_boosted_gain = FALSE]
        IN  \E s \in {Sx126xRadio_new(fresh, public)} :
            /\ s.fault = 0 \/ s.err # "Ok"
            /\ operating_mode' = s.operating_mode
            /\ packet_type' = s.packet_type
            /\ image_calibrated' = s.image_calibrated
            /\ modulation_params' = s.modulation_params
            /\ packet_params' = s.packet_params
            /\ packet_status' = s.packet_status
            /\ rx_boosted_gain' = s.rx_boosted_gain
            /\ antenna' = s.antenna
            /\ chip' = s.chip
            /\ trace' = s.trace
            /\ call' = [op |-> "new", arg |-> <<BoolU8(public)>>]
            /\ result' = s.err
            /\ ret' = s.ret
            /\ buffer' = s.buf
            /\ session' = IF s.err = "Ok" THEN "open" ELSE "none"
            /\ UNCHANGED <<timer, board, pc>>

\* the MAC calls tx(config, buffer): the future starts
Call_tx ==
    /\ session = "open" /\ pc = 0
    /\ \E config \in RfConfigs, buf \in Buffers :
        /\ call' = [op |-> "tx", arg |-> ConfigArg(config) \o <<Len(buf)>>]
        /\ buffer' = buf
    /\ trace' = <<>>
    /\ result' = "Running"
    /\ ret' = <<>>
    /\ pc' = 1
    /\ UNCHANGED <<timer, operating_mode, packet_type, image_calibrated,
                   modulation_params, packet_params, packet_status,
                   rx_boosted_gain, antenna, board, chip, session>>

\* the tx future runs to its next await
Await_tx ==
    /\ call.op = "tx" /\ pc \in 1..(LastAwait - 1)
    /\ \E f \in FaultsPhy :
        CommitAwait(PhyRxTx_tx(Resume(f, QuietEnv), pc, ArgConfig(call.arg), buffer))

\* the tx future waits for the chip in process_irq
Await_tx_process_irq ==
    /\ call.op = "tx" /\ pc = LastAwait
    /\ \E f \in FaultsPhy, irqs \in TxIrqs :
        CommitAwait(PhyRxTx_tx(Resume(f, [QuietEnv EXCEPT !.irqs = irqs]), pc,
                               ArgConfig(call.arg), buffer))

\* the MAC calls rx(config, receiving_buffer)
Call_rx ==
    /\ session = "open" /\ pc = 0
    /\ \E config \in RfConfigs, buf \in Buffers :
        /\ call' = [op |-> "rx", arg |-> ConfigArg(config) \o <<Len(buf)>>]
        /\ buffer' = buf
    /\ trace' = <<>>
    /\ result' = "Running"
    /\ ret' = <<>>
    /\ pc' = 1
    /\ UNCHANGED <<timer, operating_mode, packet_type, image_calibrated,
                   modulation_params, packet_params, packet_status,
                   rx_boosted_gain, antenna, board, chip, session>>

Await_rx ==
    /\ call.op = "rx" /\ pc \in 1..(LastAwait - 1)
    /\ \E f \in FaultsPhy :
        CommitAwait(PhyRxTx_rx(Resume(f, QuietEnv), pc, ArgConfig(call.arg)))

Await_rx_process_irq ==
    /\ call.op = "rx" /\ pc = LastAwait
    /\ \E f \in FaultsPhy, env \in RxEnvs :
        CommitAwait(PhyRxTx_rx(Resume(f, env), pc, ArgConfig(call.arg)))

Call_get_rx_window_duration_ms ==
    /\ session = "open" /\ pc = 0
    /\ call' = [op |-> "get_rx_window_duration_ms", arg |-> <<>>]
    /\ result' = "Ok"
    /\ ret' = <<get_rx_window_duration_ms>>
    /\ trace' = <<>>
    /\ UNCHANGED <<timer, operating_mode, packet_type, image_calibrated,
                   modulation_params, packet_params, packet_status,
                   rx_boosted_gain, antenna, board, chip, session, pc, buffer>>

NextPhy ==
    \/ Call_new
    \/ Call_tx
    \/ Await_tx
    \/ Await_tx_process_irq
    \/ Call_rx
    \/ Await_rx
    \/ Await_rx_process_irq
    \/ Call_get_rx_window_duration_ms

SpecPhy == InitPhy /\ [][NextPhy]_vars

----------------------------------------------------------------------------
(* Buffers at the limit of the chip's one-byte payload length *)

LongBuffers == {[i \in 1..n |-> 0] : n \in {MaxLongLen - 1, MaxLongLen}}

Call_tx_long ==
    /\ session = "open" /\ pc = 0
    /\ \E config \in RfConfigs, buf \in LongBuffers :
        /\ call' = [op |-> "tx", arg |-> ConfigArg(config) \o <<Len(buf)>>]
        /\ buffer' = buf
    /\ trace' = <<>>
    /\ result' = "Running"
    /\ ret' = <<>>
    /\ pc' = 1
    /\ UNCHANGED <<timer, operating_mode, packet_type, image_calibrated,
                   modulation_params, packet_params, packet_status,
                   rx_boosted_gain, antenna, board, chip, session>>

Call_rx_long ==
    /\ session = "open" /\ pc = 0
    /\ \E config \in RfConfigs, buf \in LongBuffers :
        /\ call' = [op |-> "rx", arg |-> ConfigArg(config) \o <<Len(buf)>>]
        /\ buffer' = buf
    /\ trace' = <<>>
    /\ result' = "Running"
    /\ ret' = <<>>
    /\ pc' = 1
    /\ UNCHANGED <<timer, operating_mode, packet_type, image_calibrated,
                   modulation_params, packet_params, packet_status,
                   rx_boosted_gain, antenna, board, chip, session>>

NextLong ==
    \/ Call_new
    \/ Call_tx_long
    \/ Await_tx
    \/ Await_tx_process_irq
    \/ Call_rx_long
    \/ Await_rx
    \/ Await_rx_process_irq

SpecLong == InitPhy /\ [][NextLong]_vars

----------------------------------------------------------------------------
(* The received payload *)

\* what the chip holds from address 0 of its data buffer
ChipData == <<161, 162, 163, 164, 165>>

\* sub_get_payload(buffer): the chip reports (size, offset), its PayloadLength
\* register holds reg, and the caller's slice holds the first len CallerBytes
Call_sub_get_payload ==
    \E f \in Faults, size \in 0..MaxPayload, offset \in {0, 2}, reg \in {MaxPayload}, len \in 0..MaxPayload :
        Commit("sub_get_payload", <<size, offset, reg, len>>,
               sub_get_payload(
                   Start(f, [QuietEnv EXCEPT !.rx_status = <<size, offset>>,
                                             !.payload_length_reg = reg,
                                             !.rx_data = ChipData],
                         SubSeq(CallerBytes, 1, len))))

\* one board: the payload path does not depend on it
InitPayload ==
    /\ InitLoRa
    /\ board = CHOOSE b \in Boards : b.radio_type = "SX1262"
    /\ session = "lora"

NextPayload ==
    \/ Store_params
    \/ Call_sub_set_packet_type
    \/ Call_sub_get_payload

SpecPayload == InitPayload /\ [][NextPayload]_vars

----------------------------------------------------------------------------
(* The pure computations: PLL steps and the symbol-timeout encoding *)

FreqMin == 150 * 1000000
FreqMax == 960 * 1000000
FreqStride == 8099999

\* frequencies spread over the supported range, its two ends included
FreqSample(k) == FreqMin + ((k * FreqStride) % (FreqMax - FreqMin + 1))
FreqSamples == {FreqSample(k) : k \in 0..NumFreqSamples}
                   \cup {FreqMin, FreqMax, 868100000}

InitNum ==
    /\ InitLoRa
    /\ board \in Boards
    /\ session = "input"

Input_freq ==
    /\ session = "input"
    /\ \E f \in FreqSamples :
        /\ call' = [op |-> "freq_in_hz", arg |-> <<f>>]
        /\ session' = "lora"
    /\ UNCHANGED <<timer, operating_mode, packet_type, image_calibrated,
                   modulation_params, packet_params, packet_status,
                   rx_boosted_gain, antenna, board, chip, pc, trace, result,
                   ret, buffer>>

Input_symb_num ==
    /\ session = "input"
    /\ \E n \in 0..MaxSymbInput :
        /\ call' = [op |-> "symb_num", arg |-> <<n>>]
        /\ session' = "lora"
    /\ UNCHANGED <<timer, operating_mode, packet_type, image_calibrated,
                   modulation_params, packet_params, packet_status,
                   rx_boosted_gain, antenna, board, chip, pc, trace, result,
                   ret, buffer>>

\* a raw byte of the GetPacketStatus response, used for its three bytes
Input_pkt_status ==
    /\ session = "input"
    /\ \E raw \in 0..255 :
        /\ call' = [op |-> "pkt_status", arg |-> <<raw, raw, raw>>]
        /\ session' = "lora"
    /\ UNCHANGED <<timer, operating_mode, packet_type, image_calibrated,
                   modulation_params, packet_params, packet_status,
                   rx_boosted_gain, antenna, board, chip, pc, trace, result,
                   ret, buffer>>

\* values the TxClampCfg register is read with
TxClampCfgs == {8, 200}

\* the thresholds of sub_calibrate_image and the frequencies next to them
CalThresholds == {900000000, 850000000, 770000000, 460000000, 425000000}
CalFreqSamples == FreqSamples \cup CalThresholds \cup {f + 1 : f \in CalThresholds}

Input_cal_freq ==
    /\ session = "input"
    /\ \E f \in CalFreqSamples :
        /\ call' = [op |-> "cal_freq", arg |-> <<f>>]
        /\ session' = "lora"
    /\ UNCHANGED <<timer, operating_mode, packet_type, image_calibrated,
                   modulation_params, packet_params, packet_status,
                   rx_boosted_gain, antenna, board, chip, pc, trace, result,
                   ret, buffer>>

Call_sub_calibrate_image ==
    /\ call.op = "cal_freq"
    /\ \E f \in Faults :
        Commit("sub_calibrate_image", call.arg,
               sub_calibrate_image(Start(f, QuietEnv, <<>>), call.arg[1]))

\* a requested power, any i8
Input_power ==
    /\ session = "input"
    /\ \E power \in -128..127, cfg \in TxClampCfgs :
        /\ call' = [op |-> "power", arg |-> <<power, cfg>>]
        /\ session' = "lora"
    /\ UNCHANGED <<timer, operating_mode, packet_type, image_calibrated,
                   modulation_params, packet_params, packet_status,
                   rx_boosted_gain, antenna, board, chip, pc, trace, result,
                   ret, buffer>>

\* sub_set_tx_params(power, Ramp200Us), the TxClampCfg register holding cfg
Call_sub_set_tx_params ==
    /\ call.op = "power"
    /\ \E f \in Faults :
        Commit("sub_set_tx_params", call.arg,
               sub_set_tx_params(
                   Start(f, [QuietEnv EXCEPT !.tx_clamp_cfg = call.arg[2]], <<>>),
                   call.arg[1], Ramp200Us))

Call_convert_freq_in_hz_to_pll_step ==
    /\ call.op = "freq_in_hz"
    /\ call' = [op |-> "convert_freq_in_hz_to_pll_step", arg |-> call.arg]
    /\ ret' = <<convert_freq_in_hz_to_pll_step(call.arg[1])>>
    /\ UNCHANGED <<timer, operating_mode, packet_type, image_calibrated,
                   modulation_params, packet_params, packet_status,
                   rx_boosted_gain, antenna, board, chip, session, pc, trace,
                   result, buffer>>

Call_sub_set_lora_symb_num_timeout ==
    /\ call.op = "symb_num"
    /\ \E f \in Faults :
        Commit("sub_set_lora_symb_num_timeout", call.arg,
               sub_set_lora_symb_num_timeout(Start(f, QuietEnv, <<>>), call.arg[1]))

Call_sub_get_packet_status ==
    /\ call.op = "pkt_status"
    /\ \E f \in Faults, checks \in BOOLEAN :
        Commit("sub_get_packet_status", call.arg,
               sub_get_packet_status(
                   Start(f, [QuietEnv EXCEPT !.pkt_status = call.arg,
                                             !.overflow_checks = checks], <<>>)))

NextNum ==
    \/ Input_freq
    \/ Input_power
    \/ Call_sub_set_tx_params
    \/ Input_cal_freq
    \/ Call_sub_calibrate_image
    \/ Input_symb_num
    \/ Input_pkt_status
    \/ Call_convert_freq_in_hz_to_pll_step
    \/ Call_sub_set_lora_symb_num_timeout
    \/ Call_sub_get_packet_status

SpecNum == InitNum /\ [][NextNum]_vars

----------------------------------------------------------------------------
(* Properties *)

\* the frames of the last call with opcode op
FramesOf(op) == {i \in 1..Len(trace) : trace[i].e = "Frame" /\ trace[i].op = op}

\* C1: in every reachable state the tracked operating_mode is the mode
\* entered by the last mode-changing command that was successfully issued
\* to the chip (stated once such a command was issued).
C1_ModeMirrorsLastCommand ==
    chip.mode # "" => operating_mode = chip.mode

\* C2: whenever image_calibrated is true, a CalibrateImage frame was issued
\* since the last reset or cold sleep, and it carries the calibration band
\* of the frequency that was programmed last.
C2_CalibratedForCurrentBand ==
    image_calibrated =>
        /\ chip.cal_band # <<>>
        /\ chip.rf_freq # <<>> => chip.cal_band = CalFreq(chip.rf_freq[1])

\* the mode each mode-changing subroutine is to enter
C3_Entered(op, arg) ==
    CASE op = "sub_set_sleep" -> "Sleep"
      [] op = "sub_set_standby" -> IF arg[1] = 0 THEN "StandbyRC" ELSE "StandbyXOSC"
      [] op = "sub_set_fs" -> "FrequencySynthesis"
      [] op \in {"sub_set_tx", "sub_set_tx_continuous_wave",
                 "sub_set_tx_infinite_preamble"} -> "Transmit"
      [] op \in {"sub_set_rx", "sub_set_rx_boosted"} -> "Receive"
      [] op = "sub_set_rx_duty_cycle" -> "ReceiveDutyCycle"
      [] op = "sub_set_cad" -> "ChannelActivityDetection"
      [] OTHER -> ""

\* C3: after a mode-changing subroutine returned Ok, operating_mode is the
\* mode that command enters.
C3_ModeAfterOk ==
    (result = "Ok" /\ C3_Entered(call.op, call.arg) # "")
        => operating_mode = C3_Entered(call.op, call.arg)

C3_Witness ==
    /\ call.op = "sub_set_standby" /\ call.arg = <<1>> /\ result = "Ok"
    /\ operating_mode = "StandbyXOSC"
    /\ FramesOf("SetStandby") # {}

\* C6: for the frequencies of [150 MHz, 960 MHz] the PLL step is computed
\* without leaving 32 bits and is within 1 of round(f * 2^25 / 32000000).
\* r = round(f * 2^14 / 15625) iff |r * 15625 - f * 2^14| <= 7812; with
\* r = a * 2^14 + b the difference is (a * 15625 - f) * 2^14 + b * 15625.
C6_IsRounded(r, f) ==
    LET a == r \div 16384
        b == r % 16384
        d == (a * 15625) - f
    IN  /\ d \in -100000..100000
        /\ Abs((d * 16384) + (b * 15625)) <= 7812

C6_NoOverflow(f) ==
    /\ PllStepsInt(f) < Pow2(32 - SX126X_PLL_STEP_SHIFT_AMOUNT) - 1
    /\ PllStepsFrac(f) < Pow2(32 - SX126X_PLL_STEP_SHIFT_AMOUNT) - 1

C6_PllStepRounded ==
    (call.op = "convert_freq_in_hz_to_pll_step"
     /\ call.arg[1] >= FreqMin /\ call.arg[1] <= FreqMax)
        => /\ C6_NoOverflow(call.arg[1])
           /\ \E r \in {ret[1] - 1, ret[1], ret[1] + 1} :
                 C6_IsRounded(r, call.arg[1])

C6_Witness ==
    /\ call.op = "convert_freq_in_hz_to_pll_step"
    /\ call.arg = <<868100000>>
    /\ ret = <<910268826>>

\* C7 as claimed: for 868100000 Hz the SetRFFrequency frame carries
\* 0x36, 0x61, 0x00, 0x00.
C7_Original ==
    (call.op = "sub_set_rf_frequency" /\ call.arg = <<868100000>>)
        => \A i \in FramesOf("SetRFFrequency") : trace[i].data = <<54, 97, 0, 0>>

\* C7 amended: for 868100000 Hz the SetRFFrequency frame carries the PLL
\* step 0x3641999A big-endian: 0x36, 0x41, 0x99, 0x9A.
C7_PllBytes868 ==
    (call.op = "sub_set_rf_frequency" /\ call.arg = <<868100000>>)
        => \A i \in FramesOf("SetRFFrequency") : trace[i].data = <<54, 65, 153, 154>>

C7_Witness ==
    /\ call.op = "sub_set_rf_frequency" /\ call.arg = <<868100000>>
    /\ result = "Ok"
    /\ FramesOf("SetRFFrequency") # {}

\* C8: for n in [0, 248] the mantissa m and exponent e of
\* sub_set_lora_symb_num_timeout satisfy m <= 31 and m * 2^(2e+1) >= n, and
\* the byte of SetLoRaSymbTimeout is m << (2e+1) with no bit lost.
C8_SymbTimeoutEncoding ==
    (call.op = "sub_set_lora_symb_num_timeout"
     /\ call.arg[1] <= SX126X_MAX_LORA_SYMB_NUM_TIMEOUT)
        => LET me == SymbMantExp(SymbInitialMant(call.arg[1]), 0)
               full == me[1] * Pow2((2 * me[2]) + 1)
           IN  /\ me[1] <= 31
               /\ full >= call.arg[1]
               /\ full < 256
               /\ \A i \in FramesOf("SetLoRaSymbTimeout") :
                     trace[i].data = <<full>>

C8_Witness ==
    /\ call.op = "sub_set_lora_symb_num_timeout" /\ call.arg = <<248>>
    /\ result = "Ok"
    /\ \E i \in FramesOf("SetLoRaSymbTimeout") : trace[i].data = <<248>>


\* the positions of the events e of the last call
EventsOf(e) == {i \in 1..Len(trace) : trace[i].e = e}
Frames == EventsOf("Frame")

\* C4: in a session every SetRFFrequency frame sent to the chip comes after
\* a SetPacketType frame that was issued successfully since the reset.
C4_FrequencyAfterPacketType ==
    /\ ~chip.rf_before_packet_type
    /\ (session = "open" /\ FramesOf("SetRFFrequency") # {})
           => chip.packet_type_set

C4_Witness ==
    /\ session = "open" /\ call.op = "tx"
    /\ FramesOf("SetRFFrequency") # {}
    /\ chip.packet_type_set

\* the configuration frames of a transmission
C5_ConfigOps == {"SetPacketType", "SetModulationParams", "SetPacketParams",
                 "SetPAConfig", "SetTxParams"}

\* C5: in a successful tx the configuration frames and SetRFFrequency all
\* precede WriteBuffer(0, payload), the next frame after WriteBuffer is the
\* only SetTx of the call, and the wait for DIO1 starts after SetTx.
C5_TxFrameOrder ==
    (call.op = "tx" /\ result = "Ok" /\ pc = 0)
        => /\ Cardinality(FramesOf("WriteBuffer")) = 1
           /\ Cardinality(FramesOf("SetTx")) = 1
           /\ \A op \in C5_ConfigOps \cup {"SetRFFrequency"} : FramesOf(op) # {}
           /\ \A w \in FramesOf("WriteBuffer") :
                /\ trace[w].data = <<0>> \o buffer
                /\ \A op \in C5_ConfigOps \cup {"SetRFFrequency"} :
                      \A i \in FramesOf(op) : i < w
                /\ \A t \in FramesOf("SetTx") :
                      /\ w < t
                      /\ \A i \in Frames : ~(w < i /\ i < t)
                      /\ EventsOf("Dio1Wait") # {}
                      /\ \A d \in EventsOf("Dio1Wait") : t < d

C5_Witness ==
    /\ call.op = "tx" /\ result = "Ok" /\ pc = 0
    /\ Len(buffer) = 1
    /\ FramesOf("SetTx") # {}

\* C9: get_rx_window_duration_ms returns 1050.
C9_RxWindowDuration ==
    call.op = "get_rx_window_duration_ms" => ret = <<1050>>

\* the 24-bit timeout of a SetTx / SetRx frame, in ticks of 15.625 us
TimeoutTicks(data) == (data[1] * 65536) + (data[2] * 256) + data[3]

\* C10: the timeout of the SetRx frame of PhyRxTx rx is 90 seconds:
\* ticks * 15.625 us = 90 s, that is ticks * 125 = 90 * 8000000.
C10_RxTimeout90s ==
    call.op = "rx"
        => \A i \in FramesOf("SetRx") :
              TimeoutTicks(trace[i].data) * 125 = 90 * 8000000

\* C11: every raw GetPacketStatus response decodes to rssi = -(raw >> 1) and
\* snr = ((raw as i8) + 2) >> 2 with no 8-bit overflow, and a successful
\* PhyRxTx rx returns the received length with exactly these values.
C11_PacketStatusDecoding ==
    /\ call.op = "sub_get_packet_status"
           => /\ result # "Overflow"
              /\ result = "Ok"
                    => /\ ret[1] = -Shr(call.arg[1], 1)
                       /\ ret[2] = Sar(U8AsI8(call.arg[2]) + 2, 2)
    /\ (call.op = "rx" /\ result = "Ok" /\ pc = 0)
           => /\ ret[1] \in 1..Len(buffer)
              /\ ret[2] = -Shr(RxPktStatus[1], 1)
              /\ ret[3] = Sar(U8AsI8(RxPktStatus[2]) + 2, 2)

\* the errors of the board and the bus
BoardErrors == {"Busy", "DigitalOut", "SPI", "Dio1"}

\* the IRQ flags the driver read and cleared in the last call
ClearedIrqs == {trace[i].data : i \in FramesOf("ClrIrqStatus")}

\* C12: when the chip raises the Timeout IRQ after the SetRx of PhyRxTx rx
\* (and the board does not fail), rx ends with ReceiveTimeout, operating_mode
\* being Receive, and the caller's receive buffer is unchanged.
C12_RxTimeout ==
    (call.op = "rx" /\ pc = 0 /\ result \notin BoardErrors
     /\ U16Bytes(IrqRxTxTimeout) \in ClearedIrqs)
        => /\ result = "ReceiveTimeout"
           /\ operating_mode = "Receive"
           /\ FramesOf("SetRx") # {}
           /\ buffer = SubSeq(CallerBytes, 1, call.arg[6])

C12_Witness ==
    /\ call.op = "rx" /\ pc = 0 /\ result = "ReceiveTimeout"
    /\ U16Bytes(IrqRxTxTimeout) \in ClearedIrqs
    /\ buffer = <<17>>

IsFrame(ev) == ev.e = "Frame"
\* the SPI frames of the last call, in order
FrameSeq == SelectSeq(trace, IsFrame)

\* C13: a successful sub_get_random clears bit 0 of AnaLNA and bit 7 of
\* AnaMixer, enters continuous reception (SetRx 0xFFFFFF), reads the four
\* bytes of GeneratedRandomNumber, returns to StandbyRC and then writes the
\* original AnaLNA and AnaMixer back, in this order; operating_mode is
\* StandbyRC and the result is the four bytes big-endian.
C13_GetRandom ==
    (call.op = "sub_get_random" /\ result = "Ok")
        => LET lna == call.arg[1]
               mixer == call.arg[2]
               number == SubSeq(call.arg, 3, 6)
           IN  /\ FrameSeq =
                    << Frame("ReadRegister:AnaLNA", <<>>),
                       Frame("WriteRegister:AnaLNA", <<lna - (lna % 2)>>),
                       Frame("ReadRegister:AnaMixer", <<>>),
                       Frame("WriteRegister:AnaMixer", <<mixer % 128>>),
                       Frame("WriteRegister:RxGain", <<148>>),
                       Frame("SetRx", <<255, 255, 255>>),
                       Frame("ReadRegister:GeneratedRandomNumber", <<>>),
                       Frame("SetStandby", <<0>>),
                       Frame("WriteRegister:AnaLNA", <<lna>>),
                       Frame("WriteRegister:AnaMixer", <<mixer>>) >>
               /\ operating_mode = "StandbyRC"
               /\ ret = <<(number[1] * 256) + number[2],
                          (number[3] * 256) + number[4]>>

C13_Witness ==
    /\ call.op = "sub_get_random" /\ result = "Ok"
    /\ call.arg = <<255, 255, 222, 173, 190, 239>>
    /\ ret = <<57005, 48879>>

\* C14: a successful init issues the RESET pulse, a BUSY-low wait and
\* SetStandby(0x00) in this order, then a SetTCXOMode frame iff the board's
\* OSC_MODE is Tcxo, with the timeout 320 packed big-endian; on return
\* operating_mode is StandbyRC and image_calibrated is false.
C14_InitSequence ==
    (call.op = "sub_init" /\ result = "Ok")
        => /\ SubSeq(trace, 1, 3)
                 = <<Ev("ResetLow"), Ev("ResetHigh"), Ev("BusyLow")>>
           /\ FrameSeq[1] = Frame("SetStandby", <<0>>)
           /\ (board.OSC_MODE = "Tcxo") <=> (FramesOf("SetTCXOMode") # {})
           /\ board.OSC_MODE = "Tcxo"
                 => FrameSeq[2] = Frame("SetTCXOMode",
                                        <<board.tcxo_voltage % 8, 0, 1, 64>>)
           /\ Cardinality(FramesOf("SetTCXOMode")) <= 1
           /\ operating_mode = "StandbyRC"
           /\ ~image_calibrated

C14_Witness ==
    /\ call.op = "sub_init" /\ result = "Ok"
    /\ board.OSC_MODE = "Tcxo" /\ ~board.DIO2_ANTENNA_CONTROL
    /\ FramesOf("SetTCXOMode") # {}
    /\ chip.cal_band = <<>> /\ chip.mode = "StandbyRC"

IsPrefix(a, b) == Len(a) <= Len(b) /\ a = SubSeq(b, 1, Len(a))
NotCalibrateImage(ev) == ev.op # "CalibrateImage"
\* the opcodes of the frames of the last call, CalibrateImage left out
OpsNoCal ==
    LET fs == SelectSeq(FrameSeq, NotCalibrateImage)
    IN  [i \in 1..Len(fs) |-> fs[i].op]
LastEv == IF trace = <<>> THEN "" ELSE trace[Len(trace)].e

\* the frames of set_tx_params on the board's radio
C15_TxParamsOps ==
    IF board.radio_type = "SX1261" THEN <<"SetPAConfig", "SetTxParams">>
    ELSE <<"ReadRegister:TxClampCfg", "WriteRegister:TxClampCfg",
           "SetPAConfig", "SetTxParams">>

\* the frames of a whole tx, and of a whole rx, step after step
C15_TxOps ==
    <<"SetPacketType", "SetModulationParams", "SetPacketType", "SetPacketParams">>
    \o C15_TxParamsOps \o <<"CfgDIOIrq", "SetBufferBaseAddress">>
    \o <<"SetPacketType", "SetPacketParams">>
    \o <<"SetRFFrequency">>
    \o <<"WriteBuffer", "SetTx">>
    \o <<"GetIrqStatus", "ClrIrqStatus", "GetIrqStatus", "ClrIrqStatus">>
C15_RxOps ==
    <<"SetPacketType", "SetModulationParams", "SetPacketType", "SetPacketParams",
      "CfgDIOIrq", "SetBufferBaseAddress", "SetLoRaSymbTimeout",
      "WriteRegister:SynchTimeout">>
    \o <<"SetPacketType", "SetPacketParams">>
    \o <<"SetRFFrequency">>
    \o <<"WriteRegister:RxGain", "SetRx">>
    \o <<"GetIrqStatus", "ClrIrqStatus", "GetRxBufferStatus", "ReadBuffer",
         "GetPacketStatus">>

\* where the trace stops when a step of the board or the bus fails
C15_StoppedAt ==
    /\ result = "Busy" => LastEv \in {"", "CsHigh", "AntTx", "AntRx", "Dio1High"}
    /\ result = "SPI" => LastEv = "CsLow"
    /\ result = "Dio1" => LastEv = "Dio1Wait"
    /\ result = "DigitalOut" => LastEv \in {"BusyLow", "Frame", "CsHigh"}
    /\ result \notin BoardErrors \cup {"Ok", "Running", "Pending"}
          => LastEv = "CsHigh"

\* C15: in PhyRxTx tx and rx the error of a step is what the call returns,
\* the call ends there (its frames are a prefix of the frames of the whole
\* call: no later step runs, no SetTx / SetRx after a failed configuration
\* step) and no step is repeated.
C15_ErrorPropagation ==
    call.op \in {"tx", "rx"}
        => /\ pc # 0 => result = "Running"
           /\ IsPrefix(OpsNoCal, IF call.op = "tx" THEN C15_TxOps ELSE C15_RxOps)
           /\ C15_StoppedAt
           /\ result = "Ok" => FramesOf(IF call.op = "tx" THEN "SetTx" ELSE "SetRx") # {}

C15_Witness ==
    /\ call.op = "tx" /\ pc = 0 /\ result = "SPI"
    /\ FramesOf("SetPacketParams") # {}
    /\ FramesOf("SetBufferBaseAddress") # {}
    /\ FramesOf("SetRFFrequency") = {}
    /\ FramesOf("SetTx") = {}

\* C16: with modulation_params unset sub_set_modulation_params returns
\* ModulationParamsMissing, with packet_params unset sub_set_packet_params
\* and sub_get_rx_buffer_status return PacketParamsMissing; no SPI frame is
\* issued and packet_type, operating_mode and image_calibrated are unchanged.
C16_MissingParams ==
    [][ /\ (call'.op = "sub_set_modulation_params" /\ ~modulation_params.some)
             => /\ result' = "ModulationParamsMissing"
                /\ trace' = <<>>
                /\ UNCHANGED <<packet_type, operating_mode, image_calibrated>>
        /\ (call'.op \in {"sub_set_packet_params", "sub_get_rx_buffer_status"}
            /\ ~packet_params.some)
             => /\ result' = "PacketParamsMissing"
                /\ trace' = <<>>
                /\ UNCHANGED <<packet_type, operating_mode, image_calibrated>>
      ]_vars

C16_Witness ==
    /\ call.op = "sub_set_modulation_params"
    /\ result = "ModulationParamsMissing"
    /\ ~modulation_params.some /\ packet_params.some
    /\ packet_type = "GFSK"
    /\ trace = <<>>

\* C17: sub_set_packet_type(T) immediately followed by sub_get_packet_type()
\* returns T, for T in {LoRa, GFSK}.
C17_PacketTypeRoundTrip ==
    [][ (call.op = "sub_set_packet_type" /\ call'.op = "sub_get_packet_type")
            => ret' = call.arg ]_vars

C17_Witness ==
    /\ call.op = "sub_get_packet_type"
    /\ ret = <<"GFSK">>
    /\ chip.packet_type_set

\* C18: a future from at(ms) expires at T0 + ms, T0 being the instant the
\* last reset() (or new()) captured, whenever at() was called: it completes
\* at that instant, or at once when the instant has passed; a future from
\* delay_ms(ms) completes ms after the call, whatever T0 is.
C18_TimerDeadlines ==
    LET Deadline(f) == IF f.kind = "at" THEN f.t0 + f.ms ELSE f.called + f.ms
        Due(f) == IF Deadline(f) > f.called THEN Deadline(f) ELSE f.called
        Holds(f) == /\ f.expires_at = Deadline(f)
                    /\ f.done # -1 => f.done = Due(f)
                    /\ f.done = -1 => timer.now <= Due(f)
                    /\ f.kind = "delay_ms" => Due(f) = f.called + f.ms
    IN  /\ timer.start <= timer.now
        /\ timer.fut.kind # "none" => Holds(timer.fut)

\* an at() called 1 ms or more after a reset() that was not at power-up
\* completed at T0 + ms, later than the call
C18_Witness ==
    /\ timer.fut.kind = "at"
    /\ timer.fut.t0 > 0
    /\ timer.fut.called > timer.fut.t0
    /\ timer.fut.done = timer.fut.t0 + timer.fut.ms
    /\ timer.fut.done > timer.fut.called

\* C19: every SPI frame the board saw in a call follows the handshake: the
\* BUSY-low wait, then CS low, directly before the frame, and CS high
\* directly after it (a call that ends at the frame failed to raise CS);
\* CS moves only around a frame, so no two frames overlap.
C19_Handshake ==
    /\ \A i \in Frames :
        /\ i >= 3
        /\ trace[i - 1].e = "CsLow"
        /\ trace[i - 2].e = "BusyLow"
        /\ IF i < Len(trace) THEN trace[i + 1].e = "CsHigh"
                             ELSE result = "DigitalOut"
        /\ \A j \in Frames : j < i => \E k \in (j + 1)..(i - 1) : trace[k].e = "CsHigh"
    /\ \A i \in EventsOf("CsHigh") : i - 1 \in Frames
    /\ \A i \in EventsOf("CsLow") :
        IF i < Len(trace) THEN i + 1 \in Frames ELSE result = "SPI"

\* a transmission and a reception that completed, with commands, register
\* accesses and a buffer access on the bus
C19_Witness ==
    /\ result = "Ok"
    /\ call.op \in {"tx", "rx"}
    /\ Cardinality(Frames) >= 5
    /\ \E i \in Frames : trace[i].op \in {"WriteBuffer", "ReadBuffer"}
    /\ \E i \in Frames : trace[i].op = "GetIrqStatus"

\* the CalibrateImage and SetRFFrequency frames of the call a step makes
C20_Cal == {i \in 1..Len(trace') : trace'[i].e = "Frame" /\ trace'[i].op = "CalibrateImage"}

C20_Rf == {i \in 1..Len(trace') : trace'[i].e = "Frame" /\ trace'[i].op = "SetRFFrequency"}

\* the CalibrateImage command of the call was completed (CS raised again)
C20_CalDone == \E i \in C20_Cal : i < Len(trace') /\ trace'[i + 1].e = "CsHigh"

C20_ColdOrInit == (call.op = "sub_init" \/ (call.op = "sub_set_sleep" /\ call.arg = <<0>>)) /\ result = "Ok"

C20_WarmSleep == call.op = "sub_set_sleep" /\ call.arg = <<1>> /\ result = "Ok"

\* C20: sub_set_rf_frequency issues a CalibrateImage frame iff
\* image_calibrated is false on entry (unless the call fails before any
\* frame), once and before the SetRFFrequency frame; it sets
\* image_calibrated exactly when that command completed.  sub_init and a
\* cold-start sub_set_sleep that returned Ok leave the flag false, so the next
\* sub_set_rf_frequency calibrates; a warm-start sub_set_sleep leaves the flag
\* as it was, so the next sub_set_rf_frequency of a calibrated driver does
\* not calibrate again.
C20_Calibration ==
    [][/\ call'.op = "sub_set_rf_frequency" =>
            /\ image_calibrated => (C20_Cal = {} /\ image_calibrated')
            /\ C20_Cal # {} => ~image_calibrated
            /\ (~image_calibrated /\ result' = "Ok") => C20_Cal # {}
            /\ (~image_calibrated /\ C20_Cal = {}) => (result' # "Ok" /\ C20_Rf = {})
            /\ Cardinality(C20_Cal) <= 1
            /\ \A i \in C20_Cal, j \in C20_Rf : i < j
            /\ ~image_calibrated => (image_calibrated' <=> C20_CalDone)
            /\ (C20_ColdOrInit /\ result' = "Ok") => C20_Cal # {}
            /\ (C20_WarmSleep /\ image_calibrated) => C20_Cal = {}
       /\ (call'.op = "sub_init" /\ result' = "Ok") => ~image_calibrated'
       /\ (call'.op = "sub_set_sleep" /\ call'.arg = <<0>> /\ result' = "Ok")
            => ~image_calibrated'
       /\ (call'.op = "sub_set_sleep" /\ call'.arg = <<1>>)
            => image_calibrated' = image_calibrated
      ]_vars

\* a sub_set_rf_frequency on a sleeping chip calibrated the image and then
\* programmed the frequency
C20_Witness ==
    /\ call.op = "sub_set_rf_frequency"
    /\ result = "Ok"
    /\ chip.mode = "Sleep"
    /\ image_calibrated
    /\ \E i \in FramesOf("CalibrateImage"), j \in FramesOf("SetRFFrequency") : i < j

\* the subroutines of the set_tx, set_rx and set_sleep paths
C21_AntennaPaths == {"sub_set_tx", "sub_set_tx_continuous_wave", "sub_set_tx_infinite_preamble", "sub_set_rx", "sub_set_rx_boosted", "sub_set_sleep"}

\* C21: a subroutine outside the set_tx, set_rx and set_sleep paths leaves
\* the antenna switch as it was and drives none of its pins.
C21_AntennaOnlyInTxRxSleep ==
    [][call'.op \notin C21_AntennaPaths =>
        /\ antenna' = antenna
        /\ \A i \in 1..Len(trace') : trace'[i].e \notin {"AntSleep", "AntTx", "AntRx"}]_vars

\* C22: a call issues a SetSleep frame only if operating_mode was StandbyRC
\* or StandbyXOSC when it was made.
C22_SleepOnlyFromStandby ==
    [][(\E i \in 1..Len(trace') : trace'[i].e = "Frame" /\ trace'[i].op = "SetSleep")
        => operating_mode \in {"StandbyRC", "StandbyXOSC"}]_vars

\* C23: sub_check_device_ready wakes the chip up (the BUSY wait of
\* brd_wakeup) exactly when operating_mode is Sleep or ReceiveDutyCycle on
\* entry, and a call that returns Ok ended with the wait for BUSY low; it
\* issues no frame and changes no field of the driver.
C23_CheckDeviceReady ==
    [][call'.op = "sub_check_device_ready" =>
        /\ result' = "Ok" =>
             trace' = IF operating_mode \in {"Sleep", "ReceiveDutyCycle"}
                      THEN <<Ev("BusyLow"), Ev("BusyLow")>>
                      ELSE <<Ev("BusyLow")>>
        /\ result' # "Ok" =>
             /\ result' = "Busy"
             /\ \/ trace' = <<>>
                \/ trace' = <<Ev("BusyLow")>> /\ operating_mode \in {"Sleep", "ReceiveDutyCycle"}
        /\ operating_mode' = operating_mode
        /\ antenna' = antenna
      ]_vars

\* the chip was woken from ReceiveDutyCycle and BUSY was waited for
C23_Witness ==
    /\ call.op = "sub_check_device_ready"
    /\ result = "Ok"
    /\ operating_mode = "ReceiveDutyCycle"
    /\ trace = <<Ev("BusyLow"), Ev("BusyLow")>>

\* the payload length sub_get_rx_buffer_status reports in the call a step
\* makes: the PayloadLength register with an implicit LoRa header, else the
\* first status byte
C24_Size == IF packet_type = "LoRa" /\ packet_params.implicit_header THEN call'.arg[3] ELSE call'.arg[1]

C24_ReadBuffers == {i \in 1..Len(trace') : trace'[i].e = "Frame" /\ trace'[i].op = "ReadBuffer"}

\* C24: once the buffer status was read, sub_get_payload returns
\* PayloadSizeMismatch(size, capacity) iff the reported size exceeds the
\* length of the caller's slice; then no ReadBuffer frame was issued and the
\* slice is as the caller passed it.  Otherwise it reads at the reported
\* offset and returns the reported size.
C24_GetPayload ==
    [][(call'.op = "sub_get_payload" /\ packet_params.some) =>
        /\ result' \in {"Ok", "PayloadSizeMismatch"} =>
             (result' = "PayloadSizeMismatch" <=> C24_Size > call'.arg[4])
        /\ C24_Size > call'.arg[4] => C24_ReadBuffers = {}
        /\ result' = "PayloadSizeMismatch" =>
             /\ ret' = <<C24_Size, call'.arg[4]>>
             /\ buffer' = SubSeq(CallerBytes, 1, call'.arg[4])
        /\ result' = "Ok" =>
             /\ ret' = <<C24_Size>>
             /\ \E i \in C24_ReadBuffers : trace'[i].data = <<call'.arg[2]>>
      ]_vars

\* a payload of 2 bytes met a slice of 1 byte
C24_Witness ==
    /\ call.op = "sub_get_payload"
    /\ result = "PayloadSizeMismatch"
    /\ ret = <<2, 1>>
    /\ buffer = <<CallerBytes[1]>>

\* the five band pairs, by falling threshold in MHz
C25_Bands == <<<<900, 225, 233>>, <<850, 215, 219>>, <<770, 193, 197>>, <<460, 117, 129>>, <<425, 107, 111>>>>

\* C25: the CalibrateImage frame of sub_calibrate_image(freq) carries the
\* band pair of the first threshold that freq strictly exceeds.
C25_CalibrationBand ==
    (call.op = "sub_calibrate_image" /\ FramesOf("CalibrateImage") # {}) =>
        \E i \in 1..Len(C25_Bands) :
            /\ call.arg[1] > C25_Bands[i][1] * 1000000
            /\ \A j \in 1..(i - 1) : call.arg[1] <= C25_Bands[j][1] * 1000000
            /\ \A k \in FramesOf("CalibrateImage") :
                   trace[k].data = <<C25_Bands[i][2], C25_Bands[i][3]>>

\* the power byte and the frames the claim names, written from the claim
C26_Clamped(p) == IF board.radio_type = "SX1261" THEN (IF p < -17 THEN -17 ELSE IF p > 14 THEN 14 ELSE p) ELSE (IF p < -9 THEN -9 ELSE IF p > 22 THEN 22 ELSE p)

C26_PaConfig(p) == IF board.radio_type = "SX1261" THEN (IF p = 15 THEN <<6, 0, 1, 1>> ELSE <<4, 0, 1, 1>>) ELSE <<4, 7, 0, 1>>

\* x | 0x1E: bit 0 and bits 5..7 of x, and bits 1..4 set
C26_Or1E(x) == (x % 2) + 30 + ((x \div 32) * 32)

C26_Frames(p, cfg) ==
    (IF board.radio_type = "SX1261" THEN <<>>
     ELSE <<Frame("ReadRegister:TxClampCfg", <<>>), Frame("WriteRegister:TxClampCfg", <<C26_Or1E(cfg)>>)>>)
    \o <<Frame("SetPAConfig", C26_PaConfig(p)), Frame("SetTxParams", <<(C26_Clamped(p) + 256) % 256, Ramp200Us>>)>>

C27_Programmed(i) ==
    LET before == {j \in FramesOf("SetPacketParams") : j < i}
        last == CHOOSE j \in before : \A k \in before : k <= j
    IN  trace[last].data[4]

\* C27: in tx the payload length programmed before the WriteBuffer frame is
\* the length L of the transmit buffer, the number of bytes that frame
\* writes; in rx the length programmed before SetRx is the length of the
\* receive buffer.
C27_PayloadLength ==
    /\ call.op = "tx" =>
         \A i \in FramesOf("WriteBuffer") :
             /\ Len(trace[i].data) - 1 = Len(buffer)
             /\ C27_Programmed(i) = Len(buffer)
    /\ call.op = "rx" =>
         \A i \in FramesOf("SetRx") : C27_Programmed(i) = call.arg[Len(call.arg)]

\* C28: after a sub_get_payload that returned Ok with size ret[1], the bytes
\* of the caller's slice at indices >= size (counted from 0) are the bytes
\* the caller passed.
C28_TailUnchanged ==
    (call.op = "sub_get_payload" /\ result = "Ok") =>
        /\ Len(buffer) = call.arg[4]
        /\ \A i \in (ret[1] + 1)..Len(buffer) : buffer[i] = CallerBytes[i]

============================================================================
